---- MODULE Spec2Model ----
(***************************************************************************)
(* Model of pokerd-backend: the game phase state machine (src/state.rs),   *)
(* the transaction submission engine and the reconciliation loop           *)
(* (src/listener.rs).                                                      *)
(***************************************************************************)
EXTENDS Integers, Sequences, FiniteSets, TLC

VARIABLES
    phase,                  \* AppState::phase, a GamePhase variant with its payload
    table_players,          \* AppState::table_players
    last_processed_block,   \* AppState::last_processed_block
    call,                   \* the last AppState operation called and what it returned
    dealt,                  \* history: the cards the current deck has dealt, in order
    round_n,                \* history: participants of the last successful start_game
    tx,                     \* submit_tx_with_retry: its position and locals
    txh,                    \* history of the current submit_tx_with_retry call
    loop,                   \* listen: its position and locals
    last_ev,                \* history: the last event handle_event was called with
    scn,                    \* history: how far the run follows the end-to-end scenario
    boot,                   \* history: what listen read and did before its first log fetch
    reader,                 \* the logs of one tick: as returned, as queued, as handled
    rpc,                    \* retries the provider's retry layer made for the current read
    lock,                   \* the RwLock around AppState: who holds it
    timer                   \* listen's interval and the time it runs in

smVars == <<phase, table_players, last_processed_block, call, dealt, round_n>>

txVars == <<tx, txh>>

loopVars == <<loop, last_ev, scn, boot, reader, rpc, lock, timer>>

vars ==
    <<phase, table_players, last_processed_block, call, dealt, round_n, tx, txh,
      loop, last_ev, scn, boot, reader, rpc, lock, timer>>

(***************************************************************************)
(* Bounds of the model.                                                    *)
(***************************************************************************)
NumShuffles == 3
MaxParticipants == 6
MaxEstimateIdx == 2
MaxNonce == 1
NumAddresses == 2
MaxBlock == 2
MaxBatch == 2
MaxEvents == 4
MaxLogs == 3
MaxLogIndex == 1
MaxProcessing == 5
MaxTime == 12

(***************************************************************************)
(* Program constants.                                                      *)
(***************************************************************************)
MAX_PLAYERS == 5
DeckSize == 52

(***************************************************************************)
(* Cards, hands and the deck (rs_poker::core).  A card is its index        *)
(* 0..51; a Hand is a set of cards; a FlatDeck is a sequence of distinct   *)
(* cards, deal() takes the last one.                                       *)
(***************************************************************************)
Cards == 0..(DeckSize - 1)

NoCall == [op |-> "none"]

\* FlatDeck::default(): all 52 cards, already shuffled.  The shuffle is one of
\* NumShuffles permutations (i -> i * m + k mod 52 with m coprime to 52).
FlatDeckDefault(k) ==
    [i \in 1..DeckSize |-> (i * (4 * k + 3) + k) % DeckSize]

\* (0..n).map(|_| deck.deal().unwrap()): the n cards dealt, in deal order.
DealN(deck, n) ==
    [i \in 1..n |-> deck[Len(deck) + 1 - i]]

\* a deal() that returns the card without removing it from the deck
DeckAfterKeeps(deck, n) ==
    deck

\* the deck left after dealing n cards
DeckAfter(deck, n) ==
    SubSeq(deck, 1, Len(deck) - n)

\* Hand::new_with_cards
HandOf(cards) ==
    {cards[i] : i \in DOMAIN cards}

(***************************************************************************)
(* GamePhase                                                               *)
(***************************************************************************)
PhaseOrder ==
    <<"WaitingForPlayers", "WaitingForDealer", "PreFlop", "WaitingForFlop", "Flop",
      "WaitingForTurn", "Turn", "WaitingForRiver", "River", "WaitingForResult">>

PhaseIndex(tag) ==
    CHOOSE i \in DOMAIN PhaseOrder : PhaseOrder[i] = tag

\* GamePhase::default()
GamePhaseDefault ==
    [tag |-> "WaitingForPlayers"]

\* a failure after std::mem::take(&mut self.phase): the phase is left at its default
BailAfterTake(ph, msg) ==
    [err |-> msg, phase |-> [tag |-> "WaitingForPlayers"], ret |-> <<>>, dealt |-> <<>>]

\* bail!(msg): the operation fails and leaves the phase as it was
Bail(ph, msg) ==
    [err |-> msg, phase |-> ph, ret |-> <<>>, dealt |-> <<>>]

Done(ph, ret, newly) ==
    [err |-> "ok", phase |-> ph, ret |-> ret, dealt |-> newly]

\* a set_ready that goes straight to PreFlop, with a deck and no players
SetReadyDeals(ph) ==
    Done([tag |-> "PreFlop", deck |-> FlatDeckDefault(1), players |-> <<>>], <<>>, <<>>)

\* AppState::set_ready
SetReady(ph) ==
    Done([tag |-> "WaitingForDealer"], <<>>, <<>>)

\* every Player gets the two cards on top of the deck, which are then dealt again
NewPlayerTopCards(participants, deck, i) ==
    [address |-> participants[i].address,
     seat |-> participants[i].seat,
     starting_hand |-> {deck[Len(deck)], deck[Len(deck) - 1]}]

\* the Player pushed for participants[i]: two cards dealt from the deck
NewPlayer(participants, deck, i) ==
    [address |-> participants[i].address,
     seat |-> participants[i].seat,
     starting_hand |-> {deck[Len(deck) + 1 - (2 * i - 1)], deck[Len(deck) + 1 - 2 * i]}]

\* start_game with the upper limit off by one (>= MAX_PLAYERS)
StartGameOffByOne(ph, participants, fresh) ==
    IF ph.tag = "WaitingForPlayers" THEN Bail(ph, "still waiting for players")
    ELSE IF ph.tag # "WaitingForDealer" THEN Bail(ph, "game has already started")
    ELSE IF Len(participants) < 2 THEN Bail(ph, "not enough players")
    ELSE IF Len(participants) >= MAX_PLAYERS THEN Bail(ph, "too many players")
    ELSE LET n == Len(participants)
         IN Done([tag |-> "PreFlop",
                  deck |-> DeckAfter(fresh, 2 * n),
                  players |-> [i \in 1..n |-> NewPlayer(participants, fresh, i)]],
                 <<>>, DealN(fresh, 2 * n))

\* AppState::start_game, with the freshly shuffled deck it draws
StartGame(ph, participants, fresh) ==
    IF ph.tag = "WaitingForPlayers" THEN Bail(ph, "still waiting for players")
    ELSE IF ph.tag # "WaitingForDealer" THEN Bail(ph, "game has already started")
    ELSE IF Len(participants) < 2 THEN Bail(ph, "not enough players")
    ELSE IF Len(participants) > MAX_PLAYERS THEN Bail(ph, "too many players")
    ELSE LET n == Len(participants)
         IN Done([tag |-> "PreFlop",
                  deck |-> DeckAfter(fresh, 2 * n),
                  players |-> [i \in 1..n |-> NewPlayer(participants, fresh, i)]],
                 <<>>, DealN(fresh, 2 * n))

\* AppState::set_waiting_for_flop
SetWaitingForFlop(ph) ==
    IF ph.tag = "PreFlop"
    THEN Done([tag |-> "WaitingForFlop", deck |-> ph.deck, players |-> ph.players],
              <<>>, <<>>)
    ELSE IF ph.tag \in {"WaitingForPlayers", "WaitingForDealer"} THEN Bail(ph, "too soon")
    ELSE Bail(ph, "too late")

\* reveal_flop with PreFlop missing from its "too soon" arm
RevealFlopNoPreFlop(ph) ==
    IF ph.tag = "WaitingForFlop"
    THEN LET flop == HandOf(DealN(ph.deck, 3))
         IN Done([tag |-> "Flop", deck |-> DeckAfter(ph.deck, 3),
                  players |-> ph.players, flop |-> flop],
                 flop, DealN(ph.deck, 3))
    ELSE IF ph.tag \in {"WaitingForPlayers", "WaitingForDealer"}
    THEN Bail(ph, "too soon")
    ELSE Bail(ph, "too late")

\* AppState::reveal_flop
RevealFlop(ph) ==
    IF ph.tag = "WaitingForFlop"
    THEN LET flop == HandOf(DealN(ph.deck, 3))
         IN Done([tag |-> "Flop", deck |-> DeckAfter(ph.deck, 3),
                  players |-> ph.players, flop |-> flop],
                 flop, DealN(ph.deck, 3))
    ELSE IF ph.tag \in {"WaitingForPlayers", "WaitingForDealer", "PreFlop"}
    THEN Bail(ph, "too soon")
    ELSE Bail(ph, "too late")

\* AppState::set_waiting_for_turn
SetWaitingForTurn(ph) ==
    IF ph.tag = "Flop"
    THEN Done([tag |-> "WaitingForTurn", deck |-> ph.deck, players |-> ph.players,
               flop |-> ph.flop], <<>>, <<>>)
    ELSE IF ph.tag \in {"WaitingForPlayers", "WaitingForDealer", "PreFlop",
                        "WaitingForFlop"}
    THEN Bail(ph, "too soon")
    ELSE Bail(ph, "too late")

\* a reveal_turn that burns a card before dealing the turn
RevealTurnBurns(ph) ==
    IF ph.tag = "WaitingForTurn"
    THEN LET turn == DealN(ph.deck, 2)[2]
         IN Done([tag |-> "Turn", deck |-> DeckAfter(ph.deck, 2),
                  players |-> ph.players, flop |-> ph.flop, turn |-> turn],
                 turn, DealN(ph.deck, 2))
    ELSE IF ph.tag \in {"WaitingForPlayers", "WaitingForDealer", "PreFlop",
                        "WaitingForFlop", "Flop"}
    THEN Bail(ph, "too soon")
    ELSE Bail(ph, "too late")

\* AppState::reveal_turn
RevealTurn(ph) ==
    IF ph.tag = "WaitingForTurn"
    THEN LET turn == DealN(ph.deck, 1)[1]
         IN Done([tag |-> "Turn", deck |-> DeckAfter(ph.deck, 1),
                  players |-> ph.players, flop |-> ph.flop, turn |-> turn],
                 turn, DealN(ph.deck, 1))
    ELSE IF ph.tag \in {"WaitingForPlayers", "WaitingForDealer", "PreFlop",
                        "WaitingForFlop", "Flop"}
    THEN Bail(ph, "too soon")
    ELSE Bail(ph, "too late")

\* AppState::set_waiting_for_river
SetWaitingForRiver(ph) ==
    IF ph.tag = "Turn"
    THEN Done([tag |-> "WaitingForRiver", deck |-> ph.deck, players |-> ph.players,
               flop |-> ph.flop, turn |-> ph.turn], <<>>, <<>>)
    ELSE IF ph.tag \in {"WaitingForPlayers", "WaitingForDealer", "PreFlop",
                        "WaitingForFlop", "Flop", "WaitingForTurn"}
    THEN Bail(ph, "too soon")
    ELSE Bail(ph, "too late")

\* AppState::reveal_river
RevealRiver(ph) ==
    IF ph.tag = "WaitingForRiver"
    THEN LET river == DealN(ph.deck, 1)[1]
         IN Done([tag |-> "River", deck |-> DeckAfter(ph.deck, 1),
                  players |-> ph.players, flop |-> ph.flop, turn |-> ph.turn,
                  river |-> river],
                 river, DealN(ph.deck, 1))
    ELSE IF ph.tag \in {"WaitingForPlayers", "WaitingForDealer", "PreFlop",
                        "WaitingForFlop", "Flop", "WaitingForTurn", "Turn"}
    THEN Bail(ph, "too soon")
    ELSE Bail(ph, "too late")

\* AppState::set_waiting_for_result
SetWaitingForResult(ph) ==
    IF ph.tag = "River"
    THEN Done([tag |-> "WaitingForResult", deck |-> ph.deck, players |-> ph.players,
               flop |-> ph.flop, turn |-> ph.turn, river |-> ph.river], <<>>, <<>>)
    ELSE IF ph.tag = "WaitingForResult" THEN Bail(ph, "too late")
    ELSE Bail(ph, "too soon")

\* Vec::remove(seat): the player at that position goes, whatever their seat
RetainByIndex(players, seat) ==
    IF seat + 1 \in DOMAIN players
    THEN SubSeq(players, 1, seat) \o SubSeq(players, seat + 2, Len(players))
    ELSE players

\* Vec::retain(|p| p.seat != seat)
RECURSIVE Retain(_, _)
Retain(players, seat) ==
    IF players = <<>> THEN <<>>
    ELSE IF Head(players).seat # seat
         THEN <<Head(players)>> \o Retain(Tail(players), seat)
         ELSE Retain(Tail(players), seat)

\* AppState::remove_player
RemovePlayer(ph, seat) ==
    IF ph.tag \in {"WaitingForPlayers", "WaitingForDealer"} THEN Bail(ph, "no players yet")
    ELSE Done([ph EXCEPT !.players = Retain(ph.players, seat)], <<>>, <<>>)

(***************************************************************************)
(* The read-only accessors; an Option is <<>> for None and <<v>> for Some. *)
(***************************************************************************)
\* AppState::get_players
GetPlayers(ph) ==
    IF ph.tag \in {"WaitingForPlayers", "WaitingForDealer"} THEN <<>>
    ELSE <<ph.players>>

\* AppState::get_flop
GetFlop(ph) ==
    IF ph.tag \in {"WaitingForPlayers", "WaitingForDealer", "PreFlop", "WaitingForFlop"}
    THEN <<>>
    ELSE <<ph.flop>>

\* get_turn with Turn in the arm that returns None
GetTurnLate(ph) ==
    IF ph.tag \in {"WaitingForPlayers", "WaitingForDealer", "PreFlop", "WaitingForFlop",
                   "Flop", "WaitingForTurn", "Turn"}
    THEN <<>>
    ELSE <<ph.turn>>

\* AppState::get_turn
GetTurn(ph) ==
    IF ph.tag \in {"WaitingForPlayers", "WaitingForDealer", "PreFlop", "WaitingForFlop",
                   "Flop", "WaitingForTurn"}
    THEN <<>>
    ELSE <<ph.turn>>

\* AppState::get_river
GetRiver(ph) ==
    IF ph.tag \in {"WaitingForPlayers", "WaitingForDealer", "PreFlop", "WaitingForFlop",
                   "Flop", "WaitingForTurn", "Turn", "WaitingForRiver"}
    THEN <<>>
    ELSE <<ph.river>>

(***************************************************************************)
(* Showdown: AppState::reveal_winner and the ranking it asks rs_poker for. *)
(***************************************************************************)
\* Card::value and Card::suit of a card index
ValueOf(c) == c \div 4

SuitOf(c) == c % 4

RECURSIVE SumPow2(_)
\* a set of small numbers as a bit mask
SumPow2(S) ==
    IF S = {} THEN 0
    ELSE LET x == CHOOSE y \in S : TRUE IN 2 ^ x + SumPow2(S \ {x})

\* the values that occur exactly n times in a hand
ValuesWithCount(hand, n) ==
    {v \in 0..12 : Cardinality({c \in hand : ValueOf(c) = v}) = n}

\* rank_straight: the index of the straight a set of 5 distinct values forms, or -1
RankStraight(values) ==
    IF values = {12, 0, 1, 2, 3} THEN 0
    ELSE IF \E lo \in 0..8 : values = lo..(lo + 4)
         THEN (CHOOSE lo \in 0..8 : values = lo..(lo + 4)) + 1
         ELSE -1

\* Rankable::rank_five: a rank as <<category, bits>>, compared in that order; it
\* is written for 5 cards and reaches unreachable!() on other counts of distinct values
RankFive(hand) ==
    LET values == {ValueOf(c) : c \in hand}
        suits == {SuitOf(c) : c \in hand}
        unique == Cardinality(values)
        value_set == SumPow2(values)
        count_to_value == [n \in 1..4 |-> SumPow2(ValuesWithCount(hand, n))]
    IN CASE unique = 5 ->
                IF RankStraight(values) >= 0
                THEN IF Cardinality(suits) = 1
                     THEN <<8, RankStraight(values)>>
                     ELSE <<4, RankStraight(values)>>
                ELSE IF Cardinality(suits) = 1 THEN <<5, value_set>>
                     ELSE <<0, value_set>>
         [] unique = 4 ->
                <<1, count_to_value[2] * 8192 + (value_set - count_to_value[2])>>
         [] unique = 3 ->
                IF count_to_value[3] > 0
                THEN <<3, count_to_value[3] * 8192 + (value_set - count_to_value[3])>>
                ELSE <<2, count_to_value[2] * 8192 + (value_set - count_to_value[2])>>
         [] unique = 2 ->
                IF count_to_value[3] > 0
                THEN <<6, count_to_value[3] * 8192 + (value_set - count_to_value[3])>>
                ELSE <<7, count_to_value[4] * 8192 + (value_set - count_to_value[4])>>
         [] OTHER -> <<-1, 0>>

\* Ord on Rank
RankLess(a, b) ==
    a[1] < b[1] \/ (a[1] = b[1] /\ a[2] < b[2])

\* the 7 cards ranked for a player: starting hand, flop, turn and river
ShowdownHand(ph, i) ==
    ph.players[i].starting_hand \cup ph.flop \cup {ph.turn, ph.river}

\* AppState::reveal_winner
RevealWinner(ph) ==
    IF ph.tag # "WaitingForResult" THEN Bail(ph, "too soon")
    ELSE LET n == Len(ph.players)
             rank == [i \in 1..n |-> RankFive(ShowdownHand(ph, i))]
             best == {i \in 1..n : \A j \in 1..n : ~RankLess(rank[i], rank[j])}
             hands == [i \in 1..n |->
                           [seat |-> ph.players[i].seat,
                            hand |-> ph.players[i].starting_hand]]
         IN IF \E i \in 1..n : rank[i][1] = -1
            THEN Bail(ph, "panic")
            ELSE Done(ph, [hands |-> hands,
                           winners |-> {ph.players[i].seat : i \in best}], <<>>)

(***************************************************************************)
(* Serialization of cards for the contract: card_to_string, hand_to_string *)
(***************************************************************************)
ValueChars == <<"2", "3", "4", "5", "6", "7", "8", "9", "T", "J", "Q", "K", "A">>

SuitChars == <<"s", "c", "h", "d">>

\* card_to_string: the value character, then the suit character
CardToString(c) ==
    <<ValueChars[ValueOf(c) + 1], SuitChars[SuitOf(c) + 1]>>

RECURSIVE HandToString(_)
\* hand_to_string: the cards' two characters, in the order Hand::iter yields them
HandToString(hand) ==
    IF hand = {} THEN <<>>
    ELSE LET c == CHOOSE x \in hand : \A y \in hand : x <= y
         IN CardToString(c) \o HandToString(hand \ {c})

(***************************************************************************)
(* The transaction submission engine: submit_tx_with_retry.                *)
(***************************************************************************)
\* what the RPC answers: provider.estimate_eip1559_fees()
FeeEstimates == {1 + 9 * i : i \in 0..MaxEstimateIdx}

TipEstimates == {0, 2}

Estimates ==
    [max_fee_per_gas : FeeEstimates, max_priority_fee_per_gas : TipEstimates]

\* what the RPC answers: provider.get_transaction_count(wallet)
Nonces == 0..MaxNonce

RpcError == "rpc error"

\* u128::div_ceil
DivCeil(a, b) ==
    (a + b - 1) \div b

Max(a, b) ==
    IF a >= b THEN a ELSE b

\* update_gas with the 10% floor rounded down
UpdateGasRoundsDown(old, new_estimate) ==
    [max_fee_per_gas |->
         Max(new_estimate.max_fee_per_gas, (old.max_fee_per_gas * 110) \div 100),
     max_priority_fee_per_gas |->
         Max(new_estimate.max_priority_fee_per_gas,
             (old.max_priority_fee_per_gas * 110) \div 100)]

\* update_gas
UpdateGas(old, new_estimate) ==
    [max_fee_per_gas |->
         Max(new_estimate.max_fee_per_gas, DivCeil(old.max_fee_per_gas * 110, 100)),
     max_priority_fee_per_gas |->
         Max(new_estimate.max_priority_fee_per_gas,
             DivCeil(old.max_priority_fee_per_gas * 110, 100))]

\* the escalation with the nonce re-fetched one attempt early
EscalationEarly(tries) ==
    IF tries <= 4 THEN "same nonce"
    ELSE IF tries <= 8 THEN "refetch nonce"
    ELSE "give up"

\* the escalation giving up one attempt late
EscalationLate(tries) ==
    IF tries <= 5 THEN "same nonce"
    ELSE IF tries <= 9 THEN "refetch nonce"
    ELSE "give up"

\* match tries { 0..=5 => .., 6..=8 => .., 9.. => .. }
Escalation(tries) ==
    IF tries <= 5 THEN "same nonce"
    ELSE IF tries <= 8 THEN "refetch nonce"
    ELSE "give up"

\* a failed send() retried like a receipt timeout
OnSendErrorRetry(t) ==
    [t EXCEPT !.pc = "estimate", !.tries = t.tries + 1]

\* .send().await?: the error of the broadcast is returned to the caller
OnSendError(t) ==
    [t EXCEPT !.pc = "done", !.result = [kind |-> "err", msg |-> "send failed"]]

ZeroGas ==
    [max_fee_per_gas |-> 0, max_priority_fee_per_gas |-> 0]

NoResult == [kind |-> "none"]

NoRequest == [fn |-> "none"]

TxIdle ==
    [pc |-> "idle", req |-> NoRequest, nonce |-> 0, gas |-> ZeroGas, tries |-> 0,
     result |-> NoResult]

TxNoHistory ==
    [nonce0 |-> 0,              \* the nonce fetched when the call began
     nonce_src |-> "none",      \* the block tag the current nonce was fetched at
     pending_fetches |-> 0,     \* fetches of the pending nonce
     refetched_at |-> {},       \* the values of tries at which the nonce was re-fetched
     est |-> ZeroGas,           \* the last fee estimate
     broadcasts |-> 0,          \* transactions broadcast
     bcast |-> [tries |-> 0, nonce |-> 0, nonce_src |-> "none", gas |-> ZeroGas,
                est |-> ZeroGas, prev_gas |-> ZeroGas],   \* the last broadcast
     floor_run |-> 0,           \* consecutive broadcasts whose estimate was under the floor
     timeouts |-> 0,            \* receipt waits that failed
     send_failures |-> 0]       \* broadcasts that failed

\* submit_tx_with_retry has returned: its locals are gone
TxReturn ==
    /\ tx' = TxIdle
    /\ txh' = TxNoHistory

\* what the caller sees of a result: the receipt's status, or the error
Receipt(result) ==
    IF result.kind = "receipt" THEN [kind |-> "receipt", status |-> result.status]
    ELSE result

\* submit_tx_with_retry is called with the transaction req
TxBegin(req) ==
    /\ tx' = [TxIdle EXCEPT !.pc = "nonce", !.req = req]
    /\ txh' = TxNoHistory

\* get_transaction_count(wallet).pending(), then gas and tries are initialised
TxFetchNonce(nonces) ==
    /\ tx.pc = "nonce"
    /\ \/ /\ tx' = [tx EXCEPT !.pc = "done",
                              !.result = [kind |-> "err",
                                          msg |-> "failed to get nonce for the wallet"]]
          /\ UNCHANGED txh
       \/ \E n \in nonces :
              /\ tx' = [tx EXCEPT !.pc = "estimate", !.nonce = n, !.gas = ZeroGas,
                                  !.tries = 0]
              /\ txh' = [txh EXCEPT !.nonce0 = n, !.nonce_src = "pending",
                                    !.pending_fetches = @ + 1]

\* estimate_eip1559_fees() and update_gas
TxEstimate(estimates) ==
    /\ tx.pc = "estimate"
    /\ \/ /\ tx' = [tx EXCEPT !.pc = "done",
                              !.result = [kind |-> "err", msg |-> "failed to estimate gas"]]
          /\ UNCHANGED txh
       \/ \E e \in estimates :
              /\ tx' = [tx EXCEPT !.pc = "send", !.gas = UpdateGas(tx.gas, e)]
              /\ txh' = [txh EXCEPT !.est = e]

\* tx.clone().nonce(nonce).max_fee_per_gas(..).max_priority_fee_per_gas(..).send()
TxSend ==
    /\ tx.pc = "send"
    /\ \/ /\ tx' = OnSendError(tx)
          /\ txh' = [txh EXCEPT !.send_failures = @ + 1]
       \/ /\ tx' = [tx EXCEPT !.pc = "receipt"]
          /\ txh' = [txh EXCEPT !.broadcasts = @ + 1,
                                !.floor_run =
                                    IF /\ txh.broadcasts > 0
                                       /\ txh.est.max_fee_per_gas < tx.gas.max_fee_per_gas
                                    THEN @ + 1 ELSE 0,
                                !.bcast = [tries |-> tx.tries, nonce |-> tx.nonce,
                                           nonce_src |-> txh.nonce_src, gas |-> tx.gas,
                                           est |-> txh.est,
                                           prev_gas |-> IF txh.broadcasts = 0 THEN ZeroGas
                                                        ELSE txh.bcast.gas]]

\* pending.with_timeout(30 s).get_receipt(): the transaction is mined
TxReceiptOk ==
    /\ tx.pc = "receipt"
    /\ \E status \in BOOLEAN :
           tx' = [tx EXCEPT !.pc = "done",
                            !.result = [kind |-> "receipt", status |-> status,
                                        tries |-> tx.tries]]
    /\ UNCHANGED txh

\* get_receipt() fails (not mined within the timeout): the match on tries
TxReceiptErr(nonces) ==
    /\ tx.pc = "receipt"
    /\ LET h == [txh EXCEPT !.timeouts = @ + 1]
       IN CASE Escalation(tx.tries) = "same nonce" ->
                   /\ tx' = [tx EXCEPT !.pc = "estimate", !.tries = @ + 1]
                   /\ txh' = h
            [] Escalation(tx.tries) = "refetch nonce" ->
                   \/ /\ tx' = [tx EXCEPT !.pc = "done",
                                          !.result = [kind |-> "err",
                                                      msg |-> "failed to get nonce for the bot wallet"]]
                      /\ txh' = h
                   \/ \E n \in nonces :
                          /\ tx' = [tx EXCEPT !.pc = "estimate", !.nonce = n,
                                              !.tries = @ + 1]
                          /\ txh' = [h EXCEPT !.nonce_src = "latest",
                                              !.refetched_at = @ \cup {tx.tries}]
            [] OTHER ->
                   /\ tx' = [tx EXCEPT !.pc = "done",
                                       !.result = [kind |-> "err",
                                                   msg |-> "could not get receipt after many tries"]]
                   /\ txh' = h

\* one step of submit_tx_with_retry, the RPC answering from the given sets
TxStep(nonces, estimates) ==
    \/ TxFetchNonce(nonces)
    \/ TxEstimate(estimates)
    \/ TxSend
    \/ TxReceiptOk
    \/ TxReceiptErr(nonces)

(***************************************************************************)
(* The contract's events and handle_event's work under the write lock.     *)
(***************************************************************************)
\* IPokerTable::GamePhases, with the variant alloy adds for unknown values
ContractPhases ==
    {PhaseOrder[i] : i \in DOMAIN PhaseOrder}

\* the logs the contract can emit; address a sits at seat a - 1
Events ==
    {[type |-> "PlayerJoined", address |-> a, seat |-> a - 1] : a \in 1..NumAddresses}
    \cup {[type |-> "PlayerLeft", address |-> a, seat |-> a - 1] : a \in 1..NumAddresses}
    \cup {[type |-> "PlayerFolded", seat |-> a - 1] : a \in 1..NumAddresses}
    \cup {[type |-> "PhaseChanged", newPhase |-> p] : p \in ContractPhases \cup {"__Invalid"}}
    \cup {[type |-> t] : t \in {"PlayerBet", "PlayerWonWithoutShowdown", "ShowdownEnded",
                                "Unknown", "NoTopic"}}

\* table.cancelCurrentRound()
CancelRequest ==
    [fn |-> "cancelCurrentRound"]

\* table.setCurrentPhase(newPhase, cardsToReveal)
SetCurrentPhase(newPhase, cards) ==
    [fn |-> "setCurrentPhase", newPhase |-> newPhase, cardsToReveal |-> cards]

\* table_players.retain(|p| p.address != address)
RECURSIVE RetainAddress(_, _)
RetainAddress(players, address) ==
    IF players = <<>> THEN <<>>
    ELSE IF Head(players).address # address
         THEN <<Head(players)>> \o RetainAddress(Tail(players), address)
         ELSE RetainAddress(Tail(players), address)

\* what a handler has done when it leaves its locked block
Locked(err, ph, tp, req, newly) ==
    [err |-> err, phase |-> ph, table_players |-> tp, req |-> req, dealt |-> newly]

\* a round requested as soon as one player is registered
RoundCanStartAlone(num_players) ==
    num_players > 0

\* if num_players > 1
RoundCanStart(num_players) ==
    num_players > 1

\* a round end that leaves the phase alone when no round was dealt
RoundEndedKeepsDealer(ph, tp) ==
    Locked("ok", IF ph.tag = "WaitingForDealer" THEN ph ELSE GamePhaseDefault,
           tp, NoRequest, <<>>)

\* handle_event, PlayerWonWithoutShowdown | ShowdownEnded
RoundEnded(ph, tp) ==
    Locked("ok", GamePhaseDefault, tp, NoRequest, <<>>)

\* an ignored log that is taken for the end of the round
IgnoredResets(ph, tp) ==
    Locked("ok", GamePhaseDefault, tp, NoRequest, <<>>)

\* handle_event, the arms that do nothing: PlayerBet, the betting phases, an
\* invalid phase, an unknown topic, no topic
Ignored(ph, tp) ==
    Locked("ok", ph, tp, NoRequest, <<>>)

\* the per-seat hand strings of revealShowdownResult
ShowdownCards(hands) ==
    [i \in 1..MAX_PLAYERS |->
        IF \E k \in DOMAIN hands : hands[k].seat = i - 1
        THEN HandToString(hands[CHOOSE k \in DOMAIN hands :
                                    /\ hands[k].seat = i - 1
                                    /\ \A j \in 1..(k - 1) : hands[j].seat # i - 1].hand)
        ELSE <<>>]

\* a set_waiting_for_X step followed by its reveal step, in one locked block
WaitThenReveal(ph, tp, waiting, revealed) ==
    IF waiting.err # "ok" THEN Locked(waiting.err, ph, tp, NoRequest, <<>>)
    ELSE IF revealed.err # "ok"
         THEN Locked(revealed.err, waiting.phase, tp, NoRequest, <<>>)
         ELSE Locked("ok", revealed.phase, tp,
                     IF revealed.phase.tag = "Flop"
                     THEN SetCurrentPhase("Flop", HandToString(revealed.ret))
                     ELSE SetCurrentPhase(revealed.phase.tag, CardToString(revealed.ret)),
                     revealed.dealt)

\* handle_event, PhaseChanged(WaitingForDealer): set_ready, then request PreFlop
PhaseChangedWaitingForDealer(ph, tp) ==
    Locked("ok", SetReady(ph).phase, tp, SetCurrentPhase("PreFlop", <<>>), <<>>)

\* handle_event, PhaseChanged
PhaseChanged(newPhase, ph, tp) ==
    CASE newPhase = "WaitingForPlayers" ->
             Locked("ok", ph, tp,
                    IF RoundCanStart(Len(tp)) THEN SetCurrentPhase("WaitingForDealer", <<>>)
                    ELSE NoRequest, <<>>)
      [] newPhase = "WaitingForDealer" ->
             PhaseChangedWaitingForDealer(ph, tp)
      [] newPhase = "WaitingForFlop" ->
             WaitThenReveal(ph, tp, SetWaitingForFlop(ph),
                            RevealFlop(SetWaitingForFlop(ph).phase))
      [] newPhase = "WaitingForTurn" ->
             WaitThenReveal(ph, tp, SetWaitingForTurn(ph),
                            RevealTurn(SetWaitingForTurn(ph).phase))
      [] newPhase = "WaitingForRiver" ->
             WaitThenReveal(ph, tp, SetWaitingForRiver(ph),
                            RevealRiver(SetWaitingForRiver(ph).phase))
      [] newPhase = "WaitingForResult" ->
             LET w == SetWaitingForResult(ph)
                 r == RevealWinner(w.phase)
             IN IF w.err # "ok" THEN Locked(w.err, ph, tp, NoRequest, <<>>)
                ELSE IF r.err # "ok" THEN Locked(r.err, w.phase, tp, NoRequest, <<>>)
                ELSE Locked("ok", r.phase, tp,
                            [fn |-> "revealShowdownResult",
                             cards |-> ShowdownCards(r.ret.hands),
                             winners |-> r.ret.winners], <<>>)
      [] OTHER -> Ignored(ph, tp)

\* handle_event up to the end of its locked block: the AppState it leaves, the
\* error it returns with, the transaction it goes on to submit
HandleLocked(e, ph, tp) ==
    CASE e.type = "PlayerJoined" ->
             LET joined == Append(tp, [address |-> e.address, seat |-> e.seat])
             IN Locked("ok", ph, joined,
                       IF RoundCanStart(Len(joined))
                       THEN SetCurrentPhase("WaitingForDealer", <<>>)
                       ELSE NoRequest, <<>>)
      [] e.type = "PlayerLeft" ->
             LET r == RemovePlayer(ph, e.seat)
             IN Locked(r.err, r.phase, RetainAddress(tp, e.address), NoRequest, <<>>)
      [] e.type = "PhaseChanged" ->
             PhaseChanged(e.newPhase, ph, tp)
      [] e.type = "PlayerFolded" ->
             LET r == RemovePlayer(ph, e.seat)
             IN Locked(r.err, r.phase, tp, NoRequest, <<>>)
      [] e.type \in {"PlayerWonWithoutShowdown", "ShowdownEnded"} ->
             RoundEnded(ph, tp)
      [] OTHER -> Ignored(ph, tp)

(***************************************************************************)
(* The reconciliation loop: listen.                                        *)
(***************************************************************************)
\* what the RPC answers inside the loop's submissions
LoopNonces == {0}

LoopEstimates ==
    {[max_fee_per_gas |-> 10, max_priority_fee_per_gas |-> 2]}

\* u64::MAX, which 0 - 1 wraps to in a build without overflow checks
U64Max == -1

\* a <= b on u64
LeU64(a, b) ==
    b = U64Max \/ (a # U64Max /\ a <= b)

\* a + 1 on u64
SuccU64(a) ==
    IF a = U64Max THEN 0 ELSE a + 1

\* from_block(last_processed_block + 1), at the checkpoint itself
FromBlockAtCheckpoint(checkpoint) ==
    checkpoint

\* from_block(last_processed_block + 1)
FromBlock(checkpoint) ==
    SuccU64(checkpoint)

\* no round is ever cancelled at startup
NeedsCancelNever(p) ==
    FALSE

\* !matches!(phase, GamePhases::WaitingForPlayers)
NeedsCancel(p) ==
    p # "WaitingForPlayers"

\* every slot read is pushed, the zero address too
SeatFoundAlways(players, player, seat) ==
    Append(players, [address |-> player, seat |-> seat])

\* if player == Address::ZERO { } else { table_players.push(TablePlayer { .. }) }
SeatFound(players, player, seat) ==
    IF player = 0 THEN players
    ELSE Append(players, [address |-> player, seat |-> seat])

\* table.playerIndices(seat): the zero address, or the address sitting there
SlotValues(seat) ==
    {0} \cup (IF seat < NumAddresses THEN {seat + 1} ELSE {})

\* nothing read from the contract yet
NoBoot ==
    [phase0 |-> "none", cancel |-> "none", slots |-> <<>>, blocks |-> <<>>]

\* tokio::time::interval not created; times are in seconds, -1 for none
NoTimer ==
    [pc |-> "none", now |-> 0, deadline |-> 0, last_tick |-> -1, prev_tick |-> -1]

\* no logs fetched
NoReader ==
    [pc |-> "idle", logs |-> <<>>, queue |-> <<>>, handled |-> <<>>]

LoopNotStarted ==
    [pc |-> "not started", last_processed_block |-> 0, latest_block |-> 0,
     from_block |-> 0, seat |-> 0,
     batch_left |-> 0, handled |-> 0, err |-> "none"]

NoEvent ==
    [event |-> [type |-> "none"], done |-> TRUE]

\* the end-to-end scenario of a round's start
Scenario ==
    <<[type |-> "PlayerJoined", address |-> 1, seat |-> 0],
      [type |-> "PlayerJoined", address |-> 2, seat |-> 1],
      [type |-> "PhaseChanged", newPhase |-> "WaitingForDealer"],
      [type |-> "PhaseChanged", newPhase |-> "WaitingForFlop"]>>

\* RetryBackoffLayer::new(5, 1000, 100_000): the retries of one request
MaxRateLimitRetries == 5

\* where listen waits for the answer of an RPC read
ReadPcs == {"current_phase", "seats", "checkpoint", "tick", "get_logs"}

\* the read has returned to listen, with an answer or with an error: the layer's
\* count starts again with the next request
ReadReturned(pc) ==
    0

\* the failed step is skipped and listen carries on
LoopFailCarriesOn(msg) ==
    loop' = [loop EXCEPT !.err = msg]

\* listen returns Err: the `?` of the failed step
LoopFail(msg) ==
    loop' = [loop EXCEPT !.pc = "failed", !.err = msg]

\* a reverted receipt turned into an error of the handler
OnReceiptBailsOnRevert(status) ==
    IF status THEN "ok" ELSE "transaction reverted"

\* receipt.status(): the outcome is logged, whatever it is
OnReceipt(status) ==
    "ok"

\* the request of a read was answered with a rate-limit error: the retry layer
\* backs off and sends it again, listen keeps waiting
LoopRateLimited ==
    /\ loop.pc \in ReadPcs
    /\ rpc < MaxRateLimitRetries
    /\ rpc' = rpc + 1
    /\ UNCHANGED <<smVars, txVars, loop, last_ev, scn, boot, reader, lock, timer>>

\* the listener task has ended: select! takes the branch, res?? returns the error
\* (or the panic) from main
MainOnListenerEndRespawns(pc) ==
    "current_phase"

MainOnListenerEnd(pc) ==
    "exited"

\* main: tokio::select! on the listener task
MainExit ==
    /\ loop.pc \in {"failed", "panicked"}
    /\ loop' = [loop EXCEPT !.pc = MainOnListenerEnd(loop.pc)]
    /\ UNCHANGED <<smVars, txVars, last_ev, scn, boot, reader, rpc, lock, timer>>

\* table.currentPhase(); a round that is going on is cancelled
LoopCurrentPhase ==
    /\ loop.pc = "current_phase"
    /\ \/ /\ LoopFail("getting current phase")
          /\ UNCHANGED <<txVars, boot>>
       \/ \E p \in ContractPhases :
              IF NeedsCancel(p)
              THEN /\ TxBegin(CancelRequest)
                   /\ loop' = [loop EXCEPT !.pc = "cancel"]
                   /\ boot' = [boot EXCEPT !.phase0 = p, !.cancel = "submitted"]
              ELSE /\ loop' = [loop EXCEPT !.pc = "seats"]
                   /\ boot' = [boot EXCEPT !.phase0 = p]
                   /\ UNCHANGED txVars
    /\ rpc' = ReadReturned(loop'.pc)
    /\ UNCHANGED <<smVars, last_ev, scn, reader, lock, timer>>

\* submit_tx_with_retry has returned to listen
LoopCancelReturn ==
    /\ loop.pc = "cancel"
    /\ tx.pc = "done"
    /\ IF tx.result.kind = "receipt"
       THEN loop' = [loop EXCEPT !.pc = IF OnReceipt(tx.result.status) = "ok"
                                        THEN "seats" ELSE "failed",
                                 !.err = IF OnReceipt(tx.result.status) = "ok"
                                         THEN @ ELSE "cancellation reverted"]
       ELSE LoopFail("sending round cancellation tx")
    /\ boot' = [boot EXCEPT !.cancel = IF tx.result.kind # "receipt" THEN "abandoned"
                                       ELSE IF tx.result.status THEN "mined"
                                       ELSE "reverted"]
    /\ TxReturn
    /\ UNCHANGED <<smVars, last_ev, scn, reader, rpc, lock, timer>>

\* for seat in 0..MAX_PLAYERS: table.playerIndices(seat)
LoopSeat ==
    /\ loop.pc = "seats"
    /\ \/ /\ LoopFail("getting player seat")
          /\ UNCHANGED <<table_players, boot>>
       \/ \E player \in SlotValues(loop.seat) :
              /\ boot' = [boot EXCEPT !.slots = Append(@, player)]
              /\ table_players' = SeatFound(table_players, player, loop.seat)
              /\ loop' = IF loop.seat + 1 < MAX_PLAYERS
                         THEN [loop EXCEPT !.seat = @ + 1]
                         ELSE [loop EXCEPT !.seat = @ + 1, !.pc = "checkpoint"]
    /\ rpc' = ReadReturned(loop'.pc)
    /\ UNCHANGED <<phase, last_processed_block, call, dealt, round_n, txVars, last_ev, scn,
                   reader, lock, timer>>

\* if last_processed_block == 0 { last_processed_block = get_block_number() - 1 }
LoopCheckpoint ==
    /\ loop.pc = "checkpoint"
    /\ IF loop.last_processed_block # 0
       THEN /\ loop' = [loop EXCEPT !.pc = "tick"]
            /\ UNCHANGED boot
       ELSE \/ /\ LoopFail("getting latest block number")
               /\ UNCHANGED boot
            \/ \E b \in 1..MaxBlock :
                   /\ loop' = [loop EXCEPT !.pc = "tick", !.last_processed_block = b - 1]
                   /\ boot' = [boot EXCEPT !.blocks = <<b>>]
            \/ /\ loop' = [loop EXCEPT !.pc = "panicked",
                                       !.err = "attempt to subtract with overflow"]
               /\ boot' = [boot EXCEPT !.blocks = <<0>>]
            \/ /\ loop' = [loop EXCEPT !.pc = "tick", !.last_processed_block = U64Max]
               /\ boot' = [boot EXCEPT !.blocks = <<0>>]
    /\ scn' = IF table_players = <<>> THEN 0 ELSE -1
    /\ rpc' = ReadReturned(loop'.pc)
    /\ UNCHANGED <<smVars, txVars, last_ev, reader, lock, timer>>

\* interval.tick(), get_block_number(): nothing to do unless the chain has advanced
LoopTick ==
    /\ loop.pc = "tick"
    /\ \/ /\ LoopFail("getting latest block number")
          /\ UNCHANGED boot
       \/ \E latest \in 0..MaxBlock :
              IF LeU64(latest, loop.last_processed_block)
              THEN UNCHANGED <<loop, boot>>
              ELSE /\ loop' = [loop EXCEPT !.pc = "get_logs", !.latest_block = latest,
                                           !.from_block = FromBlock(loop.last_processed_block)]
                   /\ boot' = NoBoot
    /\ rpc' = ReadReturned(loop'.pc)
    /\ UNCHANGED <<smVars, txVars, last_ev, scn, reader, lock, timer>>

\* get_logs(from last_processed_block + 1 to latest_block), filtered and sorted:
\* the number of logs to handle
LoopGetLogs ==
    /\ loop.pc = "get_logs"
    /\ \/ LoopFail("getting logs for block range")
       \/ \E n \in 0..MaxBatch :
              /\ loop.handled + n <= MaxEvents
              /\ loop' = [loop EXCEPT !.pc = "handle", !.batch_left = n]
    /\ rpc' = ReadReturned(loop'.pc)
    /\ UNCHANGED <<smVars, txVars, last_ev, scn, boot, reader, lock, timer>>

\* the write guard lives as long as the handler, across its submission
GuardHeldAcrossAwait(err, req) ==
    IF err = "panic" THEN "poisoned"
    ELSE IF err = "ok" /\ req # NoRequest THEN "write" ELSE "free"

\* the write guard is a local of the handler's inner block: it is dropped at the
\* end of the block, or by the `?` that leaves it; a panic inside poisons the lock
GuardAfterBlock(err, req) ==
    IF err = "panic" THEN "poisoned" ELSE "free"

\* tokio::spawn(submit_tx_with_retry(..)): handle_event does not wait
SubmissionSpawned(pc) ==
    pc

\* submit_tx_with_retry(..).await: handle_event waits for the submission to return
SubmissionAwaited(pc) ==
    "submit"

\* handle_event(log) up to the end of its locked block
LoopHandleEvent ==
    /\ loop.pc = "handle"
    /\ loop.batch_left > 0
    /\ \E e \in Events :
           LET r == HandleLocked(e, phase, table_players)
           IN /\ phase' = r.phase
              /\ table_players' = r.table_players
              /\ dealt' = dealt \o r.dealt
              /\ last_ev' = [event |-> e, latest |-> loop.latest_block, pre_phase |-> phase,
                             pre_players |-> table_players, err |-> r.err,
                             req |-> r.req, receipt |-> NoResult,
                             done |-> r.err # "ok" \/ r.req = NoRequest]
              /\ scn' = IF scn >= 0 /\ scn < Len(Scenario) /\ e = Scenario[scn + 1]
                        THEN scn + 1 ELSE -1
              /\ lock' = GuardAfterBlock(r.err, r.req)
              /\ IF r.err = "panic"
                 THEN /\ loop' = [loop EXCEPT !.pc = "panicked", !.err = "unreachable"]
                      /\ UNCHANGED txVars
                 ELSE IF r.err # "ok"
                 THEN /\ LoopFail("processing log")
                      /\ UNCHANGED txVars
                 ELSE IF r.req = NoRequest
                      THEN /\ loop' = [loop EXCEPT !.batch_left = @ - 1,
                                                   !.handled = @ + 1]
                           /\ UNCHANGED txVars
                      ELSE /\ loop' = [loop EXCEPT !.pc = SubmissionAwaited(loop.pc)]
                           /\ TxBegin(r.req)
    /\ UNCHANGED <<last_processed_block, call, round_n, boot, reader, rpc, timer>>

\* submit_tx_with_retry has returned to handle_event
LoopSubmitReturn ==
    /\ loop.pc = "submit"
    /\ tx.pc = "done"
    /\ LET err == IF tx.result.kind = "receipt" THEN OnReceipt(tx.result.status)
                  ELSE "submitting tx"
       IN /\ last_ev' = [last_ev EXCEPT !.err = err,
                                        !.receipt = Receipt(tx.result),
                                        !.done = TRUE]
          /\ IF err = "ok"
             THEN loop' = [loop EXCEPT !.pc = "handle", !.batch_left = @ - 1,
                                       !.handled = @ + 1]
             ELSE LoopFail("processing log")
    /\ TxReturn
    /\ lock' = "free"
    /\ UNCHANGED <<smVars, scn, boot, reader, rpc, timer>>

\* the batch is done: last_processed_block = latest_block, in listen and in AppState
LoopFinishBatch ==
    /\ loop.pc = "handle"
    /\ loop.batch_left = 0
    /\ loop' = [loop EXCEPT !.pc = "tick", !.last_processed_block = loop.latest_block,
                            !.from_block = 0]
    /\ last_processed_block' = loop.latest_block
    /\ UNCHANGED <<phase, table_players, call, dealt, round_n, txVars, last_ev, scn, boot, reader, rpc, lock, timer>>

\* a step of the submission listen or handle_event is waiting for
LoopTxFetchNonce ==
    /\ loop.pc \in {"cancel", "submit"}
    /\ TxFetchNonce(LoopNonces)
    /\ UNCHANGED <<smVars, loopVars>>

LoopTxEstimate ==
    /\ loop.pc \in {"cancel", "submit"}
    /\ TxEstimate(LoopEstimates)
    /\ UNCHANGED <<smVars, loopVars>>

LoopTxSend ==
    /\ loop.pc \in {"cancel", "submit"}
    /\ TxSend
    /\ UNCHANGED <<smVars, loopVars>>

LoopTxReceiptOk ==
    /\ loop.pc \in {"cancel", "submit"}
    /\ TxReceiptOk
    /\ UNCHANGED <<smVars, loopVars>>

LoopTxReceiptErr ==
    /\ loop.pc \in {"cancel", "submit"}
    /\ TxReceiptErr(LoopNonces)
    /\ UNCHANGED <<smVars, loopVars>>

\* main has built AppState and spawned listen
LoopInit ==
    /\ phase = GamePhaseDefault
    /\ table_players = <<>>
    /\ last_processed_block = 0
    /\ call = NoCall
    /\ dealt = <<>>
    /\ round_n = 0
    /\ tx = TxIdle
    /\ txh = TxNoHistory
    /\ loop = [LoopNotStarted EXCEPT !.pc = "current_phase"]
    /\ last_ev = NoEvent
    /\ scn = -1
    /\ boot = NoBoot
    /\ reader = NoReader
    /\ rpc = 0
    /\ lock = "free"
    /\ timer = NoTimer

LoopNext ==
    \/ LoopRateLimited
    \/ MainExit
    \/ LoopCurrentPhase
    \/ LoopCancelReturn
    \/ LoopSeat
    \/ LoopCheckpoint
    \/ LoopTick
    \/ LoopGetLogs
    \/ LoopHandleEvent
    \/ LoopSubmitReturn
    \/ LoopFinishBatch
    \/ LoopTxFetchNonce
    \/ LoopTxEstimate
    \/ LoopTxSend
    \/ LoopTxReceiptOk
    \/ LoopTxReceiptErr

LoopSpec == LoopInit /\ [][LoopNext]_vars

(***************************************************************************)
(* The logs of one tick (listen): filtered, sorted and handled in turn.    *)
(* An Option is a sequence: <<>> for None, <<v>> for Some(v).              *)
(***************************************************************************)
\* the logs an RPC response can hold
LogEntries ==
    [block_number : {<<>>} \cup {<<b>> : b \in 1..MaxBlock},
     log_index : {<<>>} \cup {<<i>> : i \in 0..MaxLogIndex}]

\* l.block_number.is_some() && l.log_index.is_some()
IsComplete(l) ==
    l.block_number # <<>> /\ l.log_index # <<>>

\* get_logs' responses: in any order; on a ledger no two logs share a block number
\* and a log index
Responses ==
    {logs \in UNION {[1..n -> LogEntries] : n \in 0..MaxLogs} :
        \A i, j \in DOMAIN logs :
            (i # j /\ IsComplete(logs[i])) => logs[i] # logs[j]}

\* .filter(|l| l.block_number.is_some() && l.log_index.is_some())
FilterLogs(logs) ==
    SelectSeq(logs, IsComplete)

\* the comparison by block number alone
LogLessByBlock(a, b) ==
    a.block_number[1] < b.block_number[1]

\* a.block_number.cmp(b.block_number).then(a.log_index.cmp(b.log_index)) is Less
LogLess(a, b) ==
    \/ a.block_number[1] < b.block_number[1]
    \/ /\ a.block_number[1] = b.block_number[1]
       /\ a.log_index[1] < b.log_index[1]

\* l put into a sorted sequence, behind the entries that are not greater
RECURSIVE InsertLog(_, _)
InsertLog(sorted, l) ==
    IF sorted = <<>> THEN <<l>>
    ELSE IF LogLess(l, Head(sorted)) THEN <<l>> \o sorted
         ELSE <<Head(sorted)>> \o InsertLog(Tail(sorted), l)

\* logs.sort_by(..): a stable sort
RECURSIVE SortLogs(_)
SortLogs(logs) ==
    IF logs = <<>> THEN <<>>
    ELSE InsertLog(SortLogs(SubSeq(logs, 1, Len(logs) - 1)), logs[Len(logs)])

\* get_logs has answered: filter, then sort
ReaderCollect ==
    /\ reader.pc = "get_logs"
    /\ reader' = [reader EXCEPT !.pc = "handle",
                                !.queue = SortLogs(FilterLogs(reader.logs))]
    /\ UNCHANGED <<smVars, txVars, loop, last_ev, scn, boot, rpc, lock, timer>>

\* for log in logs { handle_event(log) }
ReaderHandle ==
    /\ reader.pc = "handle"
    /\ reader.queue # <<>>
    /\ reader' = [reader EXCEPT !.queue = Tail(@),
                                !.handled = Append(@, Head(reader.queue))]
    /\ UNCHANGED <<smVars, txVars, loop, last_ev, scn, boot, rpc, lock, timer>>

\* the batch is done
ReaderFinish ==
    /\ reader.pc = "handle"
    /\ reader.queue = <<>>
    /\ reader' = [reader EXCEPT !.pc = "done"]
    /\ UNCHANGED <<smVars, txVars, loop, last_ev, scn, boot, rpc, lock, timer>>

ReaderInit ==
    /\ phase = GamePhaseDefault
    /\ table_players = <<>>
    /\ last_processed_block = 0
    /\ call = NoCall
    /\ dealt = <<>>
    /\ round_n = 0
    /\ tx = TxIdle
    /\ txh = TxNoHistory
    /\ loop = LoopNotStarted
    /\ last_ev = NoEvent
    /\ scn = -1
    /\ boot = NoBoot
    /\ reader \in {[NoReader EXCEPT !.pc = "get_logs", !.logs = logs] : logs \in Responses}
    /\ rpc = 0
    /\ lock = "free"
    /\ timer = NoTimer

ReaderNext ==
    \/ ReaderCollect
    \/ ReaderHandle
    \/ ReaderFinish

ReaderSpec == ReaderInit /\ [][ReaderNext]_vars

(***************************************************************************)
(* The interval of the polling loop (listen), in seconds.                  *)
(***************************************************************************)
\* Duration::from_secs(2)
Period == 2

\* MissedTickBehavior::Burst: the schedule is kept, missed ticks fire at once
NextDeadlineBurst(deadline, now) ==
    deadline + Period

\* MissedTickBehavior::Delay: a tick that fires late moves the schedule to a
\* period after the time it fired
NextDeadline(deadline, now) ==
    IF now > deadline THEN now + Period ELSE deadline + Period

\* interval.tick().await returns: at the deadline, or at once when it has passed
TimerTick ==
    /\ timer.pc = "tick"
    /\ Max(timer.now, timer.deadline) <= MaxTime
    /\ timer' = [pc |-> "poll",
                 now |-> Max(timer.now, timer.deadline),
                 deadline |-> NextDeadline(timer.deadline, Max(timer.now, timer.deadline)),
                 last_tick |-> Max(timer.now, timer.deadline),
                 prev_tick |-> timer.last_tick]
    /\ UNCHANGED <<smVars, txVars, loop, last_ev, scn, boot, reader, rpc, lock>>

\* the body of the loop runs for some time, then the next tick is awaited
TimerPoll ==
    /\ timer.pc = "poll"
    /\ \E d \in 0..MaxProcessing :
           /\ timer.now + d <= MaxTime
           /\ timer' = [timer EXCEPT !.pc = "tick", !.now = @ + d]
    /\ UNCHANGED <<smVars, txVars, loop, last_ev, scn, boot, reader, rpc, lock>>

\* interval(Duration::from_secs(2)): the first tick is due at once
TimerInit ==
    /\ phase = GamePhaseDefault
    /\ table_players = <<>>
    /\ last_processed_block = 0
    /\ call = NoCall
    /\ dealt = <<>>
    /\ round_n = 0
    /\ tx = TxIdle
    /\ txh = TxNoHistory
    /\ loop = LoopNotStarted
    /\ last_ev = NoEvent
    /\ scn = -1
    /\ boot = NoBoot
    /\ reader = NoReader
    /\ rpc = 0
    /\ lock = "free"
    /\ timer = [NoTimer EXCEPT !.pc = "tick"]

TimerNext ==
    \/ TimerTick
    \/ TimerPoll

TimerSpec == TimerInit /\ [][TimerNext]_vars

(***************************************************************************)
(* One call of submit_tx_with_retry on its own.                            *)
(***************************************************************************)
TxInit ==
    /\ phase = GamePhaseDefault
    /\ table_players = <<>>
    /\ last_processed_block = 0
    /\ call = NoCall
    /\ dealt = <<>>
    /\ round_n = 0
    /\ tx = [TxIdle EXCEPT !.pc = "nonce", !.req = CancelRequest]
    /\ txh = TxNoHistory
    /\ loop = LoopNotStarted
    /\ last_ev = NoEvent
    /\ scn = -1
    /\ boot = NoBoot
    /\ reader = NoReader
    /\ rpc = 0
    /\ lock = "free"
    /\ timer = NoTimer

TxFetchNonceStep ==
    TxFetchNonce(Nonces) /\ UNCHANGED <<smVars, loopVars>>

TxEstimateStep ==
    TxEstimate(Estimates) /\ UNCHANGED <<smVars, loopVars>>

TxSendStep ==
    TxSend /\ UNCHANGED <<smVars, loopVars>>

TxReceiptOkStep ==
    TxReceiptOk /\ UNCHANGED <<smVars, loopVars>>

TxReceiptErrStep ==
    TxReceiptErr(Nonces) /\ UNCHANGED <<smVars, loopVars>>

TxNext ==
    \/ TxFetchNonceStep
    \/ TxEstimateStep
    \/ TxSendStep
    \/ TxReceiptOkStep
    \/ TxReceiptErrStep

TxSpec == TxInit /\ [][TxNext]_vars

\* every RPC call returns: no step of the call is postponed for ever
TxFairSpec == TxSpec /\ WF_vars(TxNext)

(***************************************************************************)
(* The state machine called directly: every operation from every phase.    *)
(***************************************************************************)
\* the first n registered players, seated in order
Participants(n) ==
    [i \in 1..n |-> [address |-> i, seat |-> i - 1]]

\* what every call of an AppState operation does to the state
Apply(op, args, r) ==
    /\ phase' = r.phase
    /\ call' = [op |-> op, args |-> args, pre |-> phase, err |-> r.err, ret |-> r.ret]
    /\ dealt' = IF op = "start_game" /\ r.err = "ok" THEN r.dealt ELSE dealt \o r.dealt
    /\ round_n' = IF op = "start_game" /\ r.err = "ok" THEN Len(args) ELSE round_n
    /\ UNCHANGED <<table_players, last_processed_block>>
    /\ UNCHANGED <<txVars, loopVars>>

CallSetReady ==
    Apply("set_ready", <<>>, SetReady(phase))

CallStartGame ==
    \E n \in 0..MaxParticipants, k \in 1..NumShuffles :
        Apply("start_game", Participants(n),
              StartGame(phase, Participants(n), FlatDeckDefault(k)))

CallSetWaitingForFlop ==
    Apply("set_waiting_for_flop", <<>>, SetWaitingForFlop(phase))

CallRevealFlop ==
    Apply("reveal_flop", <<>>, RevealFlop(phase))

CallSetWaitingForTurn ==
    Apply("set_waiting_for_turn", <<>>, SetWaitingForTurn(phase))

CallRevealTurn ==
    Apply("reveal_turn", <<>>, RevealTurn(phase))

CallSetWaitingForRiver ==
    Apply("set_waiting_for_river", <<>>, SetWaitingForRiver(phase))

CallRevealRiver ==
    Apply("reveal_river", <<>>, RevealRiver(phase))

CallSetWaitingForResult ==
    Apply("set_waiting_for_result", <<>>, SetWaitingForResult(phase))

CallRemovePlayer ==
    \E seat \in 0..(MAX_PLAYERS - 1) :
        Apply("remove_player", <<seat>>, RemovePlayer(phase, seat))

CallRevealWinner ==
    Apply("reveal_winner", <<>>, RevealWinner(phase))

\* main: the AppState as constructed
Init ==
    /\ phase = GamePhaseDefault
    /\ table_players = <<>>
    /\ last_processed_block = 0
    /\ call = NoCall
    /\ dealt = <<>>
    /\ round_n = 0
    /\ tx = TxIdle
    /\ txh = TxNoHistory
    /\ loop = LoopNotStarted
    /\ last_ev = NoEvent
    /\ scn = -1
    /\ boot = NoBoot
    /\ reader = NoReader
    /\ rpc = 0
    /\ lock = "free"
    /\ timer = NoTimer

Next ==
    \/ CallSetReady
    \/ CallStartGame
    \/ CallSetWaitingForFlop
    \/ CallRevealFlop
    \/ CallSetWaitingForTurn
    \/ CallRevealTurn
    \/ CallSetWaitingForRiver
    \/ CallRevealRiver
    \/ CallSetWaitingForResult
    \/ CallRemovePlayer
    \/ CallRevealWinner

Spec == Init /\ [][Next]_vars

(***************************************************************************)
(* Properties of the state machine.                                        *)
(***************************************************************************)
\* the error taxonomy of the spec, as the messages the code bails with
TooSoon == {"too soon", "still waiting for players"}
TooLate == {"too late", "game has already started"}

\* the source phase each step requires
StepSource ==
    [start_game |-> "WaitingForDealer",
     set_waiting_for_flop |-> "PreFlop",
     reveal_flop |-> "WaitingForFlop",
     set_waiting_for_turn |-> "Flop",
     reveal_turn |-> "WaitingForTurn",
     set_waiting_for_river |-> "Turn",
     reveal_river |-> "WaitingForRiver",
     set_waiting_for_result |-> "River"]

\* the hole cards of the players in a phase
HoleCards(ph) ==
    UNION {ph.players[i].starting_hand : i \in DOMAIN ph.players}

\* the hands of a phase share no card
HandsDisjoint(ph) ==
    \A i, j \in DOMAIN ph.players :
        i # j => ph.players[i].starting_hand \cap ph.players[j].starting_hand = {}

\* C1: a step succeeds only from its single source phase, fails with TooSoon from
\* every phase before that source (a reveal before its set_waiting step included)
\* and with TooLate from every phase after it.
C1_StepTaxonomy ==
    call.op \in DOMAIN StepSource =>
        LET s == PhaseIndex(StepSource[call.op])
            p == PhaseIndex(call.pre.tag)
        IN /\ call.err = "ok" => p = s
           /\ p < s => call.err \in TooSoon /\ phase = call.pre
           /\ p > s => call.err \in TooLate /\ phase = call.pre
           /\ (p = s /\ call.op # "start_game") =>
                  call.err = "ok" /\ PhaseIndex(phase.tag) = s + 1

\* C1 witness: reveal_flop called in PreFlop, before set_waiting_for_flop
C1_Witness ==
    /\ call.op = "reveal_flop"
    /\ call.pre.tag = "PreFlop"
    /\ call.err = "too soon"

\* C2: start_game in WaitingForDealer fails with NotEnoughPlayers below 2
\* participants and TooManyPlayers above MAX_PLAYERS; with 2..5 it moves to
\* PreFlop with one Player per participant and 2 * n pairwise distinct hole cards.
C2_StartGame ==
    (call.op = "start_game" /\ call.pre.tag = "WaitingForDealer") =>
        LET n == Len(call.args)
        IN /\ n < 2 => call.err = "not enough players"
           /\ n > MAX_PLAYERS => call.err = "too many players"
           /\ (n >= 2 /\ n <= MAX_PLAYERS) =>
                  /\ call.err = "ok"
                  /\ phase.tag = "PreFlop"
                  /\ Len(phase.players) = n
                  /\ \A i \in 1..n :
                         /\ phase.players[i].address = call.args[i].address
                         /\ phase.players[i].seat = call.args[i].seat
                         /\ Cardinality(phase.players[i].starting_hand) = 2
                  /\ HandsDisjoint(phase)
                  /\ Cardinality(HoleCards(phase)) = 2 * n
                  /\ Len(dealt) = 2 * n
                  /\ Len(phase.deck) = DeckSize - 2 * n

\* C2 witness: start_game has dealt a full table of MAX_PLAYERS
C2_Witness ==
    /\ call.op = "start_game"
    /\ call.err = "ok"
    /\ Len(call.args) = MAX_PLAYERS
    /\ phase.tag = "PreFlop"

\* C3: after a full round with N participants (N in 2..5) the deck has yielded
\* exactly 2 * N + 5 cards and no card appears twice among the hole cards, the
\* flop, the turn and the river.
C3_FullRoundDeck ==
    phase.tag \in {"River", "WaitingForResult"} =>
        /\ round_n \in 2..MAX_PLAYERS
        /\ Len(dealt) = 2 * round_n + 5
        /\ Cardinality(HandOf(dealt)) = Len(dealt)
        /\ Len(phase.deck) = DeckSize - (2 * round_n + 5)
        /\ HandsDisjoint(phase)
        /\ Cardinality(phase.flop) = 3
        /\ HoleCards(phase) \cap phase.flop = {}
        /\ phase.turn \notin HoleCards(phase) \cup phase.flop
        /\ phase.river \notin HoleCards(phase) \cup phase.flop \cup {phase.turn}
        /\ HoleCards(phase) \cup phase.flop \cup {phase.turn, phase.river}
               \subseteq HandOf(dealt)
        /\ Len(phase.players) = round_n =>
               HoleCards(phase) \cup phase.flop \cup {phase.turn, phase.river}
                   = HandOf(dealt)

\* C3 witness: the river revealed at a full table, nobody removed
C3_Witness ==
    /\ call.op = "reveal_river"
    /\ call.err = "ok"
    /\ phase.tag = "River"
    /\ round_n = MAX_PLAYERS
    /\ Len(phase.players) = MAX_PLAYERS

(***************************************************************************)
(* Properties of the transaction submission engine.                        *)
(***************************************************************************)
GasComponents == {"max_fee_per_gas", "max_priority_fee_per_gas"}

\* x * 1.10 rounded up: the least m with 10 * m >= 11 * x
TenPercentFloor(x) ==
    CHOOSE m \in x..(2 * x) : 10 * m >= 11 * x /\ 10 * (m - 1) < 11 * x

SendFailed == [kind |-> "err", msg |-> "send failed"]

GaveUp == [kind |-> "err", msg |-> "could not get receipt after many tries"]

\* C6: the pending nonce is fetched exactly once, before the first broadcast; the
\* broadcasts of attempts 0..5 all use it; the nonce is re-fetched only in attempts
\* 6..8, from the confirmed (latest) transaction count.
C6_NonceReuse ==
    /\ txh.pending_fetches <= 1
    /\ txh.broadcasts >= 1 => txh.pending_fetches = 1
    /\ (txh.broadcasts >= 1 /\ txh.bcast.tries <= 5) =>
           /\ txh.bcast.nonce = txh.nonce0
           /\ txh.bcast.nonce_src = "pending"
    /\ txh.refetched_at \subseteq 6..8
    /\ txh.nonce_src = "latest" <=> txh.refetched_at # {}
    /\ txh.nonce_src = "pending" => tx.nonce = txh.nonce0

\* C6 witness: the last attempt is broadcast with a re-fetched nonce that differs
\* from the one the first attempts used
C6_Witness ==
    /\ txh.broadcasts = 10
    /\ txh.bcast.tries = 9
    /\ txh.bcast.nonce_src = "latest"
    /\ txh.bcast.nonce # txh.nonce0
    /\ txh.refetched_at = 6..8

\* C7: in every attempt each fee component used is max(fresh estimate, previous
\* used fee * 1.10 rounded up); an estimate under the floor gives the floor; the
\* used fee strictly increases whenever the previous used fee is positive.
C7_FeeEscalation ==
    txh.broadcasts >= 1 =>
        \A c \in GasComponents :
            LET used == txh.bcast.gas[c]
                prev == txh.bcast.prev_gas[c]
                est == txh.bcast.est[c]
            IN /\ used = Max(est, TenPercentFloor(prev))
               /\ est < TenPercentFloor(prev) => used = TenPercentFloor(prev)
               /\ prev > 0 => used > prev

\* C7 witness: three consecutive retries whose estimate is under the floor
C7_Witness ==
    /\ txh.floor_run >= 3
    /\ txh.bcast.est.max_fee_per_gas < TenPercentFloor(txh.bcast.prev_gas.max_fee_per_gas)
    /\ txh.bcast.gas.max_fee_per_gas = TenPercentFloor(txh.bcast.prev_gas.max_fee_per_gas)
    /\ txh.bcast.prev_gas.max_fee_per_gas >= 10

\* C8 as claimed: a failed broadcast counts as a failed attempt and is retried; its
\* error is not returned on the first occurrence.
C8_BroadcastFailureRetried ==
    txh.send_failures >= 1 =>
        /\ tx.tries >= txh.send_failures
        /\ tx.result = SendFailed => tx.tries >= 9

\* C8 amended: a failed broadcast ends the call at once with that error; the
\* attempt counter counts the failed receipt waits only and nothing is retried.
C8_BroadcastFailureReturned ==
    /\ txh.send_failures >= 1 =>
           /\ txh.send_failures = 1
           /\ tx.pc = "done"
           /\ tx.result = SendFailed
           /\ txh.broadcasts = txh.timeouts
           /\ tx.tries = txh.timeouts
    /\ tx.tries <= txh.timeouts

\* C8 witness: the broadcast of the third attempt fails
C8_Witness ==
    /\ txh.send_failures = 1
    /\ txh.timeouts = 2
    /\ tx.tries = 2
    /\ tx.result = SendFailed

\* C9 as claimed: a finished call has returned a receipt or has given up on the
\* failed attempt whose counter is 9.
C9_ReceiptOrGiveUpAtNine ==
    tx.pc = "done" =>
        \/ tx.result.kind = "receipt"
        \/ tx.result = GaveUp /\ tx.tries = 9

\* how a call of submit_tx_with_retry may end
C9_Outcome ==
    /\ txh.broadcasts <= 10
    /\ tx.pc = "done" =>
           \/ /\ tx.result.kind = "receipt"
              /\ tx.result.tries = txh.timeouts
              /\ txh.broadcasts = txh.timeouts + 1
           \/ /\ tx.result = GaveUp
              /\ tx.tries = 9
              /\ txh.timeouts = 10
              /\ txh.broadcasts = 10
           \/ /\ tx.result.kind = "err"
              /\ tx.result.msg \in {"failed to get nonce for the wallet",
                                    "failed to estimate gas", "send failed",
                                    "failed to get nonce for the bot wallet"}
              /\ tx.tries <= 9

\* C9 amended: when every RPC call returns, the call terminates: with the receipt of
\* the first attempt mined in time, or with the error of a failed nonce fetch, fee
\* estimate or broadcast returned at once, or giving up on the failed attempt whose
\* counter is 9; it never broadcasts more than 10 times.
C9_Terminates ==
    []C9_Outcome /\ <>(tx.pc = "done")

\* C9 witness: the call gives up after ten broadcasts
C9_Witness ==
    /\ tx.pc = "done"
    /\ tx.result = GaveUp
    /\ txh.broadcasts = 10

(***************************************************************************)
(* Properties of the reconciliation loop.                                  *)
(***************************************************************************)
\* every player of a phase holds a starting hand of 2 cards
TwoCardHands(ph) ==
    \A i \in DOMAIN ph.players : Cardinality(ph.players[i].starting_hand) = 2

\* C4: after PlayerJoined(seat 0), PlayerJoined(seat 1) and
\* PhaseChanged(WaitingForDealer) two players hold 2 hole cards each and PreFlop is
\* requested; on PhaseChanged(WaitingForFlop) 3 flop cards are revealed, the deck
\* is left with 45 cards and Flop is requested with a 6-character payload, the
\* state machine failing nowhere.
C4_EndToEnd ==
    /\ (scn = 3 /\ last_ev.done /\ last_ev.err = "ok") =>
           /\ phase.tag = "PreFlop"
           /\ Len(phase.players) = 2
           /\ TwoCardHands(phase)
           /\ Len(phase.deck) = DeckSize - 4
           /\ last_ev.req = SetCurrentPhase("PreFlop", <<>>)
    /\ scn = 4 =>
           /\ phase.tag = "Flop"
           /\ Cardinality(phase.flop) = 3
           /\ Len(phase.deck) = 45
           /\ last_ev.req.fn = "setCurrentPhase"
           /\ last_ev.req.newPhase = "Flop"
           /\ Len(last_ev.req.cardsToReveal) = 6
           /\ ~(loop.pc = "failed" /\ last_ev.receipt = NoResult)

\* C5: handling PhaseChanged(WaitingForDealer) with 2..5 seated players leaves the
\* local phase PreFlop with a fresh deck and one Player with a 2-card hand per
\* seated player, and requests phase PreFlop.
C5_DealerEventStartsGame ==
    (/\ last_ev.event = [type |-> "PhaseChanged", newPhase |-> "WaitingForDealer"]
     /\ Len(last_ev.pre_players) \in 2..MAX_PLAYERS) =>
        /\ last_ev.req = SetCurrentPhase("PreFlop", <<>>)
        /\ phase.tag = "PreFlop"
        /\ Len(phase.players) = Len(last_ev.pre_players)
        /\ \A i \in DOMAIN phase.players :
               /\ phase.players[i].address = last_ev.pre_players[i].address
               /\ phase.players[i].seat = last_ev.pre_players[i].seat
        /\ TwoCardHands(phase)
        /\ Len(phase.deck) = DeckSize - 2 * Len(phase.players)

\* C10: a mined transaction is never broadcast again, whatever its status: each
\* broadcast after the first follows a failed receipt wait, the call returns the
\* first receipt, and a handler whose transaction reverted returns without error so
\* that the loop goes on with the batch.
C10_RevertNotRetried ==
    /\ txh.broadcasts <= txh.timeouts + 1
    /\ tx.result.kind = "receipt" =>
           /\ tx.pc = "done"
           /\ txh.broadcasts = tx.result.tries + 1
           /\ txh.timeouts = tx.result.tries
    /\ (last_ev.event.type # "none" /\ last_ev.receipt.kind = "receipt") =>
           /\ last_ev.done
           /\ last_ev.err = "ok"
    /\ (loop.pc = "failed" /\ loop.err = "processing log") =>
           last_ev.receipt.kind # "receipt"

\* C10 witness: the transaction of an event was mined but reverted, and the loop is
\* back at the batch with the event counted as handled
C10_Witness ==
    /\ last_ev.event.type = "PlayerJoined"
    /\ last_ev.receipt = [kind |-> "receipt", status |-> FALSE]
    /\ last_ev.err = "ok"
    /\ loop.pc = "handle"
    /\ loop.handled = 2
    /\ loop.batch_left = 1

(***************************************************************************)
(* Properties of listen's startup.                                         *)
(***************************************************************************)
\* listen is between its startup reads and its first log fetch
StartingUp ==
    /\ loop.pc \in {"seats", "checkpoint", "tick", "panicked"}
    /\ boot.phase0 # "none"

\* C11: for every contract phase other than WaitingForPlayers read at startup a
\* cancelCurrentRound transaction goes through the retry engine, and the engine has
\* returned (receipt, or error that ends listen) before any poll of the block
\* number; for WaitingForPlayers no cancellation is submitted.
C11_StartupCancellation ==
    /\ loop.pc = "cancel" =>
           /\ boot.phase0 \notin {"none", "WaitingForPlayers"}
           /\ boot.cancel = "submitted"
           /\ tx.req = CancelRequest
    /\ StartingUp =>
           /\ tx = TxIdle
           /\ IF boot.phase0 = "WaitingForPlayers" THEN boot.cancel = "none"
              ELSE boot.cancel \in {"mined", "reverted"}
    /\ boot.cancel = "abandoned" =>
           /\ loop.pc \in {"failed", "exited"}
           /\ loop.err = "sending round cancellation tx"
    /\ loop.pc \in {"get_logs", "handle", "submit"} => boot = NoBoot

\* C11 witness: a restart in the middle of Flop has cancelled the round and waits
\* for its first tick
C11_Witness ==
    /\ loop.pc = "tick"
    /\ boot.phase0 = "Flop"
    /\ boot.cancel = "mined"
    /\ boot.blocks # <<>>

\* the contract's phase once the startup cancellation has returned: a reverted
\* transaction leaves the contract as it was
ContractPhaseAfterStartup ==
    IF boot.cancel = "mined" THEN "WaitingForPlayers" ELSE boot.phase0

\* C12: when listen reaches its polling loop after startup, the contract's phase
\* and the local phase are both WaitingForPlayers, also after a reverted
\* cancellation.
C12_PhasesAgreeAtResume ==
    (loop.pc = "tick" /\ boot.phase0 # "none") =>
        /\ phase.tag = "WaitingForPlayers"
        /\ ContractPhaseAfterStartup = phase.tag

\* C13: after the seat enumeration table_players holds exactly one
\* TablePlayer {address, seat} for each seat whose slot is non-zero, and none for
\* a seat whose slot is the zero address.
C13_SeatEnumeration ==
    (StartingUp /\ loop.pc # "seats") =>
        /\ Len(boot.slots) = MAX_PLAYERS
        /\ \A seat \in 0..(MAX_PLAYERS - 1) :
               LET entries == {i \in DOMAIN table_players : table_players[i].seat = seat}
               IN IF boot.slots[seat + 1] = 0 THEN entries = {}
                  ELSE /\ Cardinality(entries) = 1
                       /\ \A i \in entries :
                              table_players[i].address = boot.slots[seat + 1]
        /\ \A i \in DOMAIN table_players : table_players[i].address # 0

\* C13 witness: seat 1 is taken, every other seat is free
C13_Witness ==
    /\ loop.pc = "checkpoint"
    /\ boot.slots = <<0, 2, 0, 0, 0>>
    /\ table_players = <<[address |-> 2, seat |-> 1]>>

\* C14: with no stored checkpoint (last_processed_block = 0) the checkpoint becomes
\* the reported latest block number minus one, for every block number the ledger
\* can report, so that the first fetch begins at that block.
C14_CheckpointInitialised ==
    boot.blocks # <<>> =>
        /\ loop.pc = "tick"
        /\ loop.last_processed_block # U64Max
        /\ loop.last_processed_block + 1 = boot.blocks[1]
        /\ ~LeU64(boot.blocks[1], loop.last_processed_block)
        /\ FromBlock(loop.last_processed_block) = boot.blocks[1]

\* a step of listen's polling loop, as C15 has it
TickRanges ==
    /\ (loop.pc = "tick" /\ loop'.pc = "tick") =>
           UNCHANGED <<phase, table_players, last_processed_block, loop>>
    /\ (loop.pc = "tick" /\ loop'.pc = "get_logs") =>
           /\ ~LeU64(loop'.latest_block, loop.last_processed_block)
           /\ loop'.from_block = loop.last_processed_block + 1
           /\ loop'.last_processed_block = loop.last_processed_block
           /\ UNCHANGED <<phase, table_players, last_processed_block>>
    /\ (loop.pc \in {"get_logs", "handle", "submit"}
          /\ loop'.pc \in {"get_logs", "handle", "submit"}) =>
           /\ loop'.from_block = loop.from_block
           /\ loop'.latest_block = loop.latest_block
    /\ (loop.pc # "checkpoint"
          /\ loop'.last_processed_block # loop.last_processed_block) =>
           /\ loop.pc = "handle"
           /\ loop.batch_left = 0
           /\ loop'.pc = "tick"
           /\ loop'.last_processed_block = loop.latest_block

\* C15: a tick whose latest block is not above the checkpoint fetches nothing and
\* changes neither AppState nor the checkpoint; any other tick fetches exactly
\* [checkpoint + 1, latest], and the checkpoint only ever moves to the end of the
\* fetched range, so the fetched ranges are contiguous and disjoint.
C15_TickRanges ==
    [][TickRanges]_vars

\* C15 witness: block 1 has been fetched and processed, the second fetch is for
\* the range [2, 2]
C15_Witness ==
    /\ loop.pc = "get_logs"
    /\ last_processed_block = 1
    /\ loop.last_processed_block = 1
    /\ loop.from_block = 2
    /\ loop.latest_block = 2

(***************************************************************************)
(* Properties of a tick's logs.                                            *)
(***************************************************************************)
\* the logs handled so far followed by the ones still queued
HandlingOrder ==
    reader.handled \o reader.queue

\* C16: whatever the order of the response, the logs missing a block number or a
\* log index are dropped and the others, all of them, are handled one by one in
\* strictly ascending order of (block_number, log_index).
C16_FilteredSorted ==
    reader.pc \in {"handle", "done"} =>
        /\ \A i \in DOMAIN HandlingOrder : IsComplete(HandlingOrder[i])
        /\ \A i, j \in DOMAIN HandlingOrder :
               i < j =>
                   \/ HandlingOrder[i].block_number[1] < HandlingOrder[j].block_number[1]
                   \/ /\ HandlingOrder[i].block_number[1] = HandlingOrder[j].block_number[1]
                      /\ HandlingOrder[i].log_index[1] < HandlingOrder[j].log_index[1]
        /\ {HandlingOrder[i] : i \in DOMAIN HandlingOrder}
               = {reader.logs[i] : i \in {k \in DOMAIN reader.logs :
                                              IsComplete(reader.logs[k])}}
        /\ reader.pc = "done" => reader.queue = <<>>

\* C16 witness: a response spanning two blocks, out of order and with a log that
\* has no block number, has been handled
C16_Witness ==
    /\ reader.pc = "done"
    /\ reader.logs = <<[block_number |-> <<2>>, log_index |-> <<0>>],
                       [block_number |-> <<>>, log_index |-> <<0>>],
                       [block_number |-> <<1>>, log_index |-> <<1>>]>>
    /\ reader.handled = <<[block_number |-> <<1>>, log_index |-> <<1>>],
                          [block_number |-> <<2>>, log_index |-> <<0>>]>>

(***************************************************************************)
(* Properties of the event handlers inside the loop.                       *)
(***************************************************************************)
\* the errors of the state machine's operations
PhaseErrors ==
    TooSoon \cup TooLate \cup {"not enough players", "too many players", "no players yet"}

\* C17: the checkpoint of AppState moves to the tick's latest block only after the
\* whole batch was handled without error, and together with the batch's
\* mutations: no AppState a reader can see holds a mutation of the batch next to
\* the checkpoint from before the batch.
C17_CheckpointAtomic ==
    /\ ((loop.pc = "handle" /\ loop.batch_left > 0) \/ loop.pc = "submit"
           \/ (loop.pc = "failed" /\ loop.err = "processing log")) =>
           last_processed_block # loop.latest_block
    /\ (last_ev.event.type # "none" /\ last_processed_block # last_ev.latest) =>
           /\ table_players = last_ev.pre_players
           /\ phase = last_ev.pre_phase

\* C18: a PlayerJoined{address, seat} whose player is already registered with that
\* seat leaves table_players as it was.
C18_PlayerJoinedIdempotent ==
    (/\ last_ev.event.type = "PlayerJoined"
     /\ \E i \in DOMAIN last_ev.pre_players :
            last_ev.pre_players[i] = [address |-> last_ev.event.address,
                                      seat |-> last_ev.event.seat]) =>
        table_players = last_ev.pre_players

\* C19: PlayerLeft{address, seat} removes the player from table_players, removes
\* the seat from the round's players when a round is active and leaves the phase
\* alone otherwise, returns without error and submits no transaction.
C19_PlayerLeft ==
    last_ev.event.type = "PlayerLeft" =>
        /\ table_players = RetainAddress(last_ev.pre_players, last_ev.event.address)
        /\ last_ev.req = NoRequest
        /\ phase = IF last_ev.pre_phase.tag \in {"WaitingForPlayers", "WaitingForDealer"}
                   THEN last_ev.pre_phase
                   ELSE RemovePlayer(last_ev.pre_phase, last_ev.event.seat).phase
        /\ last_ev.err = "ok"
        /\ loop.pc # "failed"

\* C20: an event whose state-machine operation failed with a PhaseError is given
\* up, alone: listen goes on with the rest of the batch.
C20_PhaseErrorAbandonsEvent ==
    (last_ev.event.type # "none" /\ last_ev.err \in PhaseErrors) =>
        /\ loop.pc = "handle"
        /\ loop.err = "none"

(***************************************************************************)
(* Properties of the loop's failures.                                      *)
(***************************************************************************)
\* the errors listen returns from its RPC reads
ReadErrors ==
    {"getting current phase", "getting player seat", "getting latest block number",
     "getting logs for block range"}

\* listen has returned, or main after it
Ended ==
    loop.pc \in {"failed", "panicked", "exited"}

\* C21 as claimed: the first failed request of an RPC read ends the loop, no
\* request is sent again.
C21_SingleFailureFatal ==
    rpc > 0 => Ended

\* what the retry layer and listen do with a failing read
ReadFailureStep ==
    /\ rpc' > rpc =>
           /\ rpc' = rpc + 1
           /\ UNCHANGED <<smVars, txVars, loop, last_ev, scn, boot, reader>>
    /\ (loop.err = "none" /\ loop'.err \in ReadErrors) =>
           /\ loop.pc \in ReadPcs
           /\ loop'.pc = "failed"
           /\ loop'.last_processed_block = loop.last_processed_block
           /\ UNCHANGED <<smVars, txVars, last_ev>>

\* C21: a request of an RPC read that fails with a rate-limit error is sent again
\* by the provider's retry layer, at most MaxRateLimitRetries times; once the read
\* returns an error to listen it is not retried: listen returns the error, leaving
\* AppState and the checkpoint as they were.
C21_ReadErrorFatal ==
    /\ [](/\ rpc \in 0..MaxRateLimitRetries
          /\ rpc > 0 => loop.pc \in ReadPcs
          /\ loop.err # "none" => Ended)
    /\ [][ReadFailureStep]_vars

\* C21 witness: get_logs failed in the second tick, listen has returned
C21_Witness ==
    /\ loop.pc = "failed"
    /\ loop.err = "getting logs for block range"
    /\ last_processed_block = 1
    /\ loop.latest_block = 2

\* once listen has returned main returns, and nothing runs after that
ExitStep ==
    /\ loop.pc \in {"failed", "panicked"} =>
           /\ loop' = [loop EXCEPT !.pc = "exited"]
           /\ UNCHANGED <<smVars, txVars, last_ev, scn, boot, reader, rpc, lock, timer>>
    /\ loop.pc # "exited"

\* C22: when the submission engine gives up, handle_event and listen return the
\* error: no later event is handled, the checkpoint stays where it was before the
\* tick, the loop is not started again and main returns.
C22_GiveUpFatal ==
    /\ []((last_ev.event.type # "none" /\ last_ev.receipt = GaveUp) =>
              /\ Ended
              /\ loop.pc # "panicked"
              /\ loop.err = "processing log"
              /\ last_ev.err = "submitting tx"
              /\ loop.batch_left > 0
              /\ last_processed_block # loop.latest_block
              /\ loop.last_processed_block # loop.latest_block)
    /\ [][ExitStep]_vars

\* C22 witness: the engine gave up on the transaction of an event and main has
\* returned
C22_Witness ==
    /\ loop.pc = "exited"
    /\ last_ev.event.type = "PlayerJoined"
    /\ last_ev.receipt = GaveUp

(***************************************************************************)
(* Properties of the lock around AppState.                                 *)
(***************************************************************************)
\* where listen or handle_event waits for the network
NetworkPcs ==
    ReadPcs \cup {"cancel", "submit"}

\* C23: the write lock on AppState is held only inside the handlers' in-memory
\* blocks: whenever an RPC read, a broadcast or a receipt wait is in progress the
\* lock is free, so a reader can take the read lock while a transaction is
\* pending or retried.
C23_NoLockAcrossNetwork ==
    /\ loop.pc \in NetworkPcs => lock = "free"
    /\ tx.pc \in {"nonce", "estimate", "send", "receipt"} => lock = "free"

\* C23 witness: the handler of PhaseChanged(WaitingForDealer) has changed the phase
\* and waits for the receipt of a transaction it has already broadcast twice
C23_Witness ==
    /\ loop.pc = "submit"
    /\ tx.pc = "receipt"
    /\ txh.broadcasts = 2
    /\ last_ev.event = [type |-> "PhaseChanged", newPhase |-> "WaitingForDealer"]
    /\ phase.tag = "WaitingForDealer"
    /\ lock = "free"

(***************************************************************************)
(* Properties of the polling interval.                                     *)
(***************************************************************************)
\* what a step of the interval loop may do
TickStep ==
    /\ timer.pc = "poll" => (timer'.pc = "tick" /\ timer'.last_tick = timer.last_tick)
    /\ timer.pc = "tick" =>
           /\ timer'.pc = "poll"
           /\ timer'.now >= timer.now
           /\ timer'.now >= timer.deadline
           /\ timer'.deadline >= timer'.now + Period

\* C24: polls never overlap (a tick is awaited only when the poll before it is
\* over), and the ticks missed during a long poll are not made up for: two
\* ticks never fire less than a period apart, however long the polls took.
C24_TicksCoalesced ==
    /\ [](timer.prev_tick >= 0 => timer.last_tick - timer.prev_tick >= Period)
    /\ [][TickStep]_vars

\* C24 witness: a poll took 5 seconds, so the ticks due at 2 and 4 were missed;
\* one tick fired at 5, the next one only at 7
C24_Witness ==
    /\ timer.pc = "poll"
    /\ timer.prev_tick = 5
    /\ timer.last_tick = 7
    /\ timer.deadline = 9

(***************************************************************************)
(* Properties of the showdown and of remove_player.                        *)
(***************************************************************************)
\* the 5-card hands that can be made of a set of cards
FiveCardHands(cards) ==
    {h \in SUBSET cards : Cardinality(h) = 5}

\* the best rank a player can make of their 7 cards
BestRank(cards) ==
    CHOOSE r \in {RankFive(h) : h \in FiveCardHands(cards)} :
        \A h \in FiveCardHands(cards) : ~RankLess(r, RankFive(h))

\* the seats whose best rank no other player of the round beats
BestSeats(ph) ==
    {ph.players[i].seat : i \in
        {i \in DOMAIN ph.players :
            \A j \in DOMAIN ph.players :
                ~RankLess(BestRank(ShowdownHand(ph, i)), BestRank(ShowdownHand(ph, j)))}}

\* C25: reveal_winner in WaitingForResult returns the (seat, starting hand) pair
\* of every player still in the round and exactly the seats whose best rank
\* over their 7 cards is the maximum, and leaves the phase unchanged.
C25_ShowdownWinners ==
    (call.op = "reveal_winner" /\ call.pre.tag = "WaitingForResult") =>
        /\ call.err = "ok"
        /\ phase = call.pre
        /\ call.ret.hands = [i \in DOMAIN call.pre.players |->
                                 [seat |-> call.pre.players[i].seat,
                                  hand |-> call.pre.players[i].starting_hand]]
        /\ call.ret.winners = BestSeats(call.pre)

\* C26: remove_player fails in WaitingForPlayers and WaitingForDealer and
\* changes nothing; in every other phase it succeeds, the players left are
\* those of before with another seat, in their order, and the variant, the
\* deck and the community cards are as before.
C26_RemovePlayerFrame ==
    call.op = "remove_player" =>
        IF call.pre.tag \in {"WaitingForPlayers", "WaitingForDealer"}
        THEN call.err = "no players yet" /\ phase = call.pre
        ELSE /\ call.err = "ok"
             /\ phase = [call.pre EXCEPT !.players = phase.players]
             /\ phase.players =
                    SelectSeq(call.pre.players, LAMBDA q : q.seat # call.args[1])

\* C26 witness: seat 1 is removed on the flop after seat 0 had gone, and a
\* player is left
C26_Witness ==
    /\ call.op = "remove_player"
    /\ call.err = "ok"
    /\ call.pre.tag = "Flop"
    /\ call.args = <<1>>
    /\ Len(call.pre.players) = 2
    /\ call.pre.players[1].seat = 1
    /\ Len(phase.players) = 1
    /\ phase.players[1].seat = 2

(***************************************************************************)
(* Properties of the showdown transaction, the accessors and the phases.   *)
(***************************************************************************)
\* C27: handling PhaseChanged(WaitingForResult) submits revealShowdownResult
\* with MAX_PLAYERS hand strings: that of the player at seat i at entry i, the
\* empty string where no player of the round sits, no hand left out.
C27_ShowdownArray ==
    last_ev.event = [type |-> "PhaseChanged", newPhase |-> "WaitingForResult"] =>
        /\ last_ev.err = "ok"
        /\ last_ev.req.fn = "revealShowdownResult"
        /\ Len(last_ev.req.cards) = MAX_PLAYERS
        /\ \A i \in 1..MAX_PLAYERS :
               IF \E k \in DOMAIN phase.players : phase.players[k].seat = i - 1
               THEN \E k \in DOMAIN phase.players :
                        /\ phase.players[k].seat = i - 1
                        /\ last_ev.req.cards[i] = HandToString(phase.players[k].starting_hand)
               ELSE last_ev.req.cards[i] = <<>>
        /\ \A k \in DOMAIN phase.players : phase.players[k].seat < MAX_PLAYERS

\* what each accessor exposes in the current phase
Exposed ==
    [players |-> GetPlayers(phase), flop |-> GetFlop(phase),
     turn |-> GetTurn(phase), river |-> GetRiver(phase)]

\* the phases from a given one on
From(tag) ==
    {PhaseOrder[i] : i \in PhaseIndex(tag)..Len(PhaseOrder)}

\* a community card that stays exposed over a step is the same card
ExposedStable ==
    /\ (GetFlop(phase) # <<>> /\ GetFlop(phase') # <<>>) => GetFlop(phase') = GetFlop(phase)
    /\ (GetTurn(phase) # <<>> /\ GetTurn(phase') # <<>>) => GetTurn(phase') = GetTurn(phase)
    /\ (GetRiver(phase) # <<>> /\ GetRiver(phase') # <<>>) =>
           GetRiver(phase') = GetRiver(phase)

\* C28: get_players is None exactly in WaitingForPlayers and WaitingForDealer,
\* get_flop is Some exactly from Flop on, get_turn from Turn on, get_river from
\* River on, each being the field of the current phase; and a flop, turn or
\* river once exposed is the same at every later read until it is hidden again.
C28_Accessors ==
    /\ [](/\ Exposed.players = <<>> <=> phase.tag \notin From("PreFlop")
          /\ Exposed.flop # <<>> <=> phase.tag \in From("Flop")
          /\ Exposed.turn # <<>> <=> phase.tag \in From("Turn")
          /\ Exposed.river # <<>> <=> phase.tag \in From("River")
          /\ phase.tag \in From("PreFlop") => Exposed.players = <<phase.players>>
          /\ phase.tag \in From("Flop") => Exposed.flop = <<phase.flop>>
          /\ phase.tag \in From("Turn") => Exposed.turn = <<phase.turn>>
          /\ phase.tag \in From("River") => Exposed.river = <<phase.river>>)
    /\ [][ExposedStable]_vars

\* C28 witness: on the river all four accessors answer, with the cards dealt
\* for the flop, the turn and the river
C28_Witness ==
    /\ call.op = "reveal_river"
    /\ call.err = "ok"
    /\ Exposed.players = <<phase.players>>
    /\ Exposed.flop = <<HandOf(SubSeq(dealt, Len(dealt) - 4, Len(dealt) - 2))>>
    /\ Exposed.turn = <<dealt[Len(dealt) - 1]>>
    /\ Exposed.river = <<dealt[Len(dealt)]>>

\* the number of cards each step deals
NewlyDealt ==
    [set_waiting_for_flop |-> 0, reveal_flop |-> 3,
     set_waiting_for_turn |-> 0, reveal_turn |-> 1,
     set_waiting_for_river |-> 0, reveal_river |-> 1,
     set_waiting_for_result |-> 0]

\* the fields of a phase record but its tag and its deck
Carried(ph) ==
    [f \in DOMAIN ph \ {"tag", "deck"} |-> ph[f]]

\* C29: a successful step to a later phase leaves the players and the community
\* cards revealed before as they were, takes exactly the newly dealt cards (3, 1,
\* 1 or none) from the end of the deck and adds them, and nothing else, to the
\* phase; the flop has 3 cards.
C29_CarriedForward ==
    (call.op \in DOMAIN NewlyDealt /\ call.err = "ok") =>
        LET n == NewlyDealt[call.op]
            taken == {call.pre.deck[i] :
                          i \in (Len(call.pre.deck) - n + 1)..Len(call.pre.deck)}
        IN /\ PhaseIndex(phase.tag) = PhaseIndex(call.pre.tag) + 1
           /\ \A f \in DOMAIN Carried(call.pre) :
                  f \in DOMAIN phase /\ phase[f] = call.pre[f]
           /\ phase.deck = SubSeq(call.pre.deck, 1, Len(call.pre.deck) - n)
           /\ Cardinality(taken) = n
           /\ CASE call.op = "reveal_flop" ->
                       /\ phase.flop = taken
                       /\ DOMAIN Carried(phase) = DOMAIN Carried(call.pre) \cup {"flop"}
                [] call.op = "reveal_turn" ->
                       /\ {phase.turn} = taken
                       /\ DOMAIN Carried(phase) = DOMAIN Carried(call.pre) \cup {"turn"}
                [] call.op = "reveal_river" ->
                       /\ {phase.river} = taken
                       /\ DOMAIN Carried(phase) = DOMAIN Carried(call.pre) \cup {"river"}
                [] OTHER -> DOMAIN Carried(phase) = DOMAIN Carried(call.pre)
           /\ phase.tag \in From("Flop") => Cardinality(phase.flop) = 3

\* C29 witness: the river is revealed to three players after one had been removed
C29_Witness ==
    /\ call.op = "reveal_river"
    /\ call.err = "ok"
    /\ round_n = 4
    /\ Len(phase.players) = 3
    /\ Len(phase.deck) = DeckSize - 2 * 4 - 5
    /\ phase.river = call.pre.deck[Len(call.pre.deck)]

\* a change of the local phase goes one step along PhaseOrder or back to the start
PhaseStep ==
    phase'.tag # phase.tag =>
        \/ PhaseIndex(phase'.tag) = PhaseIndex(phase.tag) + 1
        \/ phase' = GamePhaseDefault

\* C30: in the reconciliation loop every change of the local phase is a move to
\* the immediate successor in PhaseOrder or a reset to WaitingForPlayers.
C30_LinearPhases ==
    [][PhaseStep]_vars

\* C30 witness: the round has ended and the local phase, which had moved on to
\* WaitingForDealer, is back at WaitingForPlayers
C30_Witness ==
    /\ last_ev.event.type \in {"PlayerWonWithoutShowdown", "ShowdownEnded"}
    /\ last_ev.pre_phase.tag = "WaitingForDealer"
    /\ phase = GamePhaseDefault

(***************************************************************************)
(* Properties of the handlers of single events.                            *)
(***************************************************************************)
\* the request for the dealer
DealerRequest ==
    SetCurrentPhase("WaitingForDealer", <<>>)

\* the step of handle_event that ends its locked block, for one of some events
Handles(events) ==
    /\ loop.pc = "handle"
    /\ loop.batch_left > 0
    /\ last_ev'.event \in events

\* the handler returns Ok at once: no transaction, the loop goes on with the batch
ReturnsOk ==
    /\ last_ev'.err = "ok"
    /\ last_ev'.req = NoRequest
    /\ last_ev'.done
    /\ tx = TxIdle
    /\ tx' = TxIdle
    /\ loop' = [loop EXCEPT !.batch_left = @ - 1, !.handled = @ + 1]

RoundEndEvents ==
    {e \in Events : e.type \in {"PlayerWonWithoutShowdown", "ShowdownEnded"}}

\* C32: handling PlayerWonWithoutShowdown or ShowdownEnded leaves the local
\* phase WaitingForPlayers, with no deck, players or community cards, whatever it
\* was before, leaves the registered players and the checkpoint as they were,
\* submits no transaction and returns without error.
C32_RoundEndResets ==
    [][Handles(RoundEndEvents) =>
           /\ phase' = GamePhaseDefault
           /\ DOMAIN phase' = {"tag"}
           /\ table_players' = table_players
           /\ last_processed_block' = last_processed_block
           /\ ReturnsOk]_vars

\* C32 witness: the round ends while two players are registered and the local
\* phase is WaitingForDealer
C32_Witness ==
    /\ last_ev.event.type = "PlayerWonWithoutShowdown"
    /\ last_ev.pre_phase.tag = "WaitingForDealer"
    /\ last_ev.done
    /\ phase.tag = "WaitingForPlayers"
    /\ Len(table_players) = 2
    /\ loop.pc = "handle"

\* the events handle_event does nothing for
IgnoredEvents ==
    {e \in Events :
        \/ e.type \in {"PlayerBet", "Unknown", "NoTopic"}
        \/ e.type = "PhaseChanged" /\ e.newPhase \in {"PreFlop", "Flop", "Turn", "River"}}

\* C33: handling PlayerBet, PhaseChanged to PreFlop, Flop, Turn or River, a log
\* with an unknown topic or a log without topic changes nothing in AppState,
\* submits no transaction and returns without error.
C33_IgnoredEvents ==
    [][Handles(IgnoredEvents) =>
           /\ phase' = phase
           /\ table_players' = table_players
           /\ last_processed_block' = last_processed_block
           /\ ReturnsOk]_vars

\* C33 witness: PhaseChanged(Flop) has been handled while two players are
\* registered and the local phase is WaitingForDealer
C33_Witness ==
    /\ last_ev.event = [type |-> "PhaseChanged", newPhase |-> "Flop"]
    /\ last_ev.done
    /\ last_ev.err = "ok"
    /\ phase.tag = "WaitingForDealer"
    /\ Len(table_players) = 2
    /\ loop.pc = "handle"

(***************************************************************************)
(* Properties of a whole round and of the registered players.              *)
(***************************************************************************)
\* C34: with two players seated and a contract that accepts every transaction
\* and emits the events of a round in order, the service eventually submits the
\* showdown result and is back at WaitingForPlayers with the loop running.  The
\* round has to get past its first dealing step for that: PhaseChanged(
\* WaitingForFlop), handled after PhaseChanged(WaitingForDealer) with two
\* registered players, is not refused by the state machine and reveals the flop.
C34_RoundCompletes ==
    (/\ last_ev.event = [type |-> "PhaseChanged", newPhase |-> "WaitingForFlop"]
     /\ last_ev.pre_phase.tag = "WaitingForDealer"
     /\ Len(last_ev.pre_players) >= 2) =>
        /\ last_ev.err \notin PhaseErrors
        /\ phase.tag = "Flop"
        /\ loop.err # "processing log" \/ last_ev.receipt # NoResult

\* C35: table_players never holds two entries with the same seat and never more
\* than MAX_PLAYERS entries.
C35_RegisteredSeatsDistinct ==
    /\ \A i, j \in DOMAIN table_players :
           i # j => table_players[i].seat # table_players[j].seat
    /\ Len(table_players) <= MAX_PLAYERS

\* C36: an operation of the state machine that fails leaves the phase, with its
\* deck, players and community cards, as it was before the call.
C36_ErrorLeavesPhase ==
    (call.op # "none" /\ call.err # "ok") =>
        /\ phase = call.pre
        /\ call.ret = <<>>

\* C36 witness: reveal_turn is refused on the river, which stays as it was
C36_Witness ==
    /\ call.op = "reveal_turn"
    /\ call.err = "too late"
    /\ phase.tag = "River"
    /\ Len(phase.players) >= 2
    /\ phase.river \in HandOf(dealt)

\* the community cards a phase has revealed
Community(ph) ==
    (IF "flop" \in DOMAIN ph THEN ph.flop ELSE {})
    \cup (IF "turn" \in DOMAIN ph THEN {ph.turn} ELSE {})
    \cup (IF "river" \in DOMAIN ph THEN {ph.river} ELSE {})

\* C37: in a round the deck, the hole cards of the players still in and the
\* community cards are pairwise disjoint, no card is in the deck or in two hands
\* twice, the deck has 52 - 2 * (players dealt in) - (community cards revealed)
\* cards, and no card dealt in the round, a removed player's included, is in
\* the deck.
C37_CardsConserved ==
    phase.tag \in From("PreFlop") =>
        /\ HandOf(phase.deck) \cap HoleCards(phase) = {}
        /\ HandOf(phase.deck) \cap Community(phase) = {}
        /\ HoleCards(phase) \cap Community(phase) = {}
        /\ Cardinality(HandOf(phase.deck)) = Len(phase.deck)
        /\ Cardinality(HoleCards(phase)) = 2 * Len(phase.players)
        /\ Len(phase.deck) = DeckSize - 2 * round_n - Cardinality(Community(phase))
        /\ Len(dealt) = 2 * round_n + Cardinality(Community(phase))
        /\ HandOf(phase.deck) \cap HandOf(dealt) = {}
        /\ HandOf(phase.deck) \cup HandOf(dealt) = Cards

\* C37 witness: three players were dealt in, two were removed, and the round
\* has got to the showdown with 41 cards in the deck
C37_Witness ==
    /\ phase.tag = "WaitingForResult"
    /\ round_n = 3
    /\ Len(phase.players) = 1
    /\ Len(phase.deck) = 41
    /\ Cardinality(HandOf(dealt) \ (HoleCards(phase) \cup Community(phase))) = 4

(***************************************************************************)
(* Properties of the single task: submissions and what readers can see.    *)
(***************************************************************************)
\* a submission starts only when none is in progress, and no event is handled
\* while one is
OneSubmission ==
    /\ (tx'.pc = "nonce" /\ tx' # tx) => tx = TxIdle
    /\ Handles(Events) => tx = TxIdle

\* C38: at most one submission is in progress: while one is, listen or
\* handle_event is waiting for it, and no block-number poll, log fetch or other
\* read is under way; the next event of the batch is handled, and the next
\* submission started, only after it has returned.
C38_OneSubmission ==
    /\ [](tx.pc # "idle" => (loop.pc \in {"cancel", "submit"} /\ rpc = 0))
    /\ [][OneSubmission]_vars

\* C38 witness: a transaction is broadcast again after a failed receipt wait
\* while another event of the batch is waiting to be handled
C38_Witness ==
    /\ loop.pc = "submit"
    /\ loop.batch_left >= 2
    /\ tx.pc = "receipt"
    /\ txh.timeouts >= 1
    /\ txh.broadcasts >= 2

\* the dealing events and the phase each one reveals
Reveals ==
    [WaitingForFlop |-> "Flop", WaitingForTurn |-> "Turn", WaitingForRiver |-> "River"]

\* C39: the local phase is never seen at WaitingForFlop, WaitingForTurn or
\* WaitingForRiver: handling PhaseChanged to one of them takes the phase from
\* the betting phase before it to the revealed phase in one locked block, and
\* the cards revealed are readable, the lock being free, while the transaction
\* is submitted.
C39_WaitingPhasesHidden ==
    /\ phase.tag \notin DOMAIN Reveals
    /\ (last_ev.event.type = "PhaseChanged" /\ last_ev.event.newPhase \in DOMAIN Reveals) =>
           /\ PhaseIndex(last_ev.pre_phase.tag) = PhaseIndex(last_ev.event.newPhase) - 1
           /\ phase.tag = Reveals[last_ev.event.newPhase]
           /\ GetFlop(phase) # <<>>
           /\ ~last_ev.done => (lock = "free" /\ tx.pc # "idle")

====
